---------------------------- MODULE Spec2Model ----------------------------
(***************************************************************************)
(* Classifier training-job lifecycle of core/domain/classifier_services.py *)
(* The job store is a sequence of job records in storage (scan) order; a   *)
(* job's id is its position.  The status-transition table, the paginated   *)
(* query and the domain validation live outside the files modelled here    *)
(* and follow their written description.                                   *)
(***************************************************************************)
EXTENDS Integers, Sequences, FiniteSets, TLC

VARIABLES
    jobs,   \* ClassifierTrainingJobModel records, in storage order
    now,    \* datetime.datetime.utcnow(), in lease units
    ret,    \* outcome of the latest service call
    pc,     \* per worker: position inside a stepwise fetch_next_job call
    loc,    \* per worker: locals of fetch_next_job (cursor, valid_jobs, ...)
    lease,  \* per worker: the lease handed out by its latest fetch_next_job
    mappings,     \* TrainingJobExplorationMappingModel records
    classifiers,  \* ClassifierDataModel records
    exp_version,  \* version of the exploration as last saved
    log,          \* validate() and write events of the latest service call
    questions     \* QuestionModel store: question id -> model

vars == <<jobs, now, ret, pc, loc, lease,
          mappings, classifiers, exp_version, log, questions>>

\* The state the scheduler's calls leave alone.
storeVars == <<mappings, classifiers, exp_version, log, questions>>

----------------------------------------------------------------------------
\* Bounds of the model.

\* Jobs the store may hold under Spec.
MaxJobs == 3
\* Jobs the store may hold under TimedSpec, where the clock runs.
MaxTimedJobs == 3
\* Latest value of the clock.
MaxTime == 1
\* Jobs the store may hold under ConcSpec, where fetch_next_job calls of
\* two workers interleave.
MaxConcJobs == 3
\* Jobs the store may hold under LoopSpec, where one fetch_next_job call is
\* followed iteration by iteration.
MaxLoopJobs == 3
MaxMapJobs == 2      \* jobs created by exploration saves
MaxVersion == 2      \* exploration versions saved
MaxCarryJobs == 2    \* jobs created when jobs are also deleted
MaxCarryVersion == 2 \* exploration versions saved when jobs are deleted
MaxDataJobs == 2     \* jobs that classifier data is created for
MaxAuditJobs == 1    \* jobs created while the calls are logged
MaxAuditVersion == 2 \* exploration versions saved while the calls are logged
MaxAnswerGroups == 2 \* answer groups of a classified state
MaxQuestions == 2    \* questions the store may hold
MaxRaceJobs == 2     \* jobs the store may hold while status updates interleave

----------------------------------------------------------------------------
\* Configuration (feconf) and collaborators.

TRAINING_JOB_STATUS_NEW == "NEW"
TRAINING_JOB_STATUS_PENDING == "PENDING"
TRAINING_JOB_STATUS_COMPLETE == "COMPLETE"
TRAINING_JOB_STATUS_FAILED == "FAILED"

ALLOWED_TRAINING_JOB_STATUSES ==
    { TRAINING_JOB_STATUS_NEW, TRAINING_JOB_STATUS_PENDING,
      TRAINING_JOB_STATUS_COMPLETE, TRAINING_JOB_STATUS_FAILED }

\* Mutant: the table without the retry of a FAILED job.
ALLOWED_TRAINING_JOB_STATUS_CHANGES_no_retry ==
    [ s \in ALLOWED_TRAINING_JOB_STATUSES |->
        CASE s = TRAINING_JOB_STATUS_NEW -> { TRAINING_JOB_STATUS_PENDING }
          [] s = TRAINING_JOB_STATUS_PENDING ->
                { TRAINING_JOB_STATUS_COMPLETE, TRAINING_JOB_STATUS_FAILED }
          [] OTHER -> {} ]

\* Adjacency of the status state machine: NEW->PENDING, PENDING->COMPLETE,
\* PENDING->FAILED, FAILED->PENDING (retry); nothing leaves COMPLETE.
ALLOWED_TRAINING_JOB_STATUS_CHANGES ==
    [ s \in ALLOWED_TRAINING_JOB_STATUSES |->
        CASE s = TRAINING_JOB_STATUS_NEW -> { TRAINING_JOB_STATUS_PENDING }
          [] s = TRAINING_JOB_STATUS_PENDING ->
                { TRAINING_JOB_STATUS_COMPLETE, TRAINING_JOB_STATUS_FAILED }
          [] s = TRAINING_JOB_STATUS_FAILED -> { TRAINING_JOB_STATUS_PENDING }
          [] s = TRAINING_JOB_STATUS_COMPLETE -> {} ]

\* Interactions with a classifier and the algorithm configured for each.
INTERACTION_CLASSIFIER_MAPPING ==
    [ TextInput |-> [algorithm_id |-> "LDAStringClassifier",
                     current_data_schema_version |-> 1],
      CodeRepl |-> [algorithm_id |-> "CodeClassifier",
                    current_data_schema_version |-> 1] ]

\* Lease length added to utcnow() by the scheduler.
CLASSIFIER_JOB_TTL_MINS == 1

\* Page size of ClassifierTrainingJobModel.query_training_jobs.
QUERY_PAGE_SIZE == 2

\* A status no configuration defines, to exercise validation.
BogusStatus == "BOGUS"

\* Absent record, as returned by get_multi / get(strict=False).
None == [status |-> "None"]

\* No job: the value of fetch_next_job's None result and of unused id slots.
NoJob == 0

Min(a, b) == IF a <= b THEN a ELSE b

\* ClassifierTrainingJob.validate(): the status is one of the defined
\* values, the exploration version is at least 1, the interaction has a
\* classifier and the algorithm is the one configured for it.
validate(job) ==
    /\ job.status \in ALLOWED_TRAINING_JOB_STATUSES
    /\ job.exp_version >= 1
    /\ job.interaction_id \in DOMAIN INTERACTION_CLASSIFIER_MAPPING
    /\ job.algorithm_id =
           INTERACTION_CLASSIFIER_MAPPING[job.interaction_id].algorithm_id

\* ClassifierTrainingJobModel.get_multi(job_ids): one entry per id, None for
\* an id the store does not hold.
get_multi(js, job_ids) ==
    [ i \in 1..Len(job_ids) |->
        IF job_ids[i] \in 1..Len(js) THEN js[job_ids[i]] ELSE None ]

\* ClassifierTrainingJobModel.put_multi(models): whole records are written.
RECURSIVE put_multi(_, _, _)
put_multi(js, job_ids, models) ==
    IF Len(job_ids) = 0 THEN js
    ELSE put_multi([js EXCEPT ![Head(job_ids)] = Head(models)],
                   Tail(job_ids), Tail(models))

\* ClassifierTrainingJobModel.query_training_jobs(cursor): the next page of
\* job ids in storage order, the cursor after it, and whether more remain.
query_training_jobs(js, cursor) ==
    LET last == Min(cursor + QUERY_PAGE_SIZE, Len(js))
    IN  [ page |-> [ i \in 1..(last - cursor) |-> cursor + i ],
          cursor |-> last,
          more |-> last < Len(js) ]


----------------------------------------------------------------------------
\* Status updates.

\* The loop of _update_classifier_training_jobs_status over the fetched
\* models: a missing model or a status change outside the allowed set
\* raises; otherwise the in-memory model takes the new status.
RECURSIVE update_status_loop(_, _, _)
update_status_loop(models, status, index) ==
    IF index > Len(models) THEN [raised |-> FALSE, models |-> models]
    ELSE IF models[index] = None THEN [raised |-> TRUE, models |-> models]
    ELSE IF status \notin
              ALLOWED_TRAINING_JOB_STATUS_CHANGES[models[index].status]
         THEN [raised |-> TRUE, models |-> models]
    ELSE IF ~validate([models[index] EXCEPT !.status = status])
         THEN [raised |-> TRUE, models |-> models]
    ELSE update_status_loop([models EXCEPT ![index].status = status],
                            status, index + 1)

\* Mutant: the allowed-set check is left out.
RECURSIVE update_status_loop_unchecked(_, _, _)
update_status_loop_unchecked(models, status, index) ==
    IF index > Len(models) THEN [raised |-> FALSE, models |-> models]
    ELSE IF models[index] = None THEN [raised |-> TRUE, models |-> models]
    ELSE update_status_loop_unchecked(
             [models EXCEPT ![index].status = status], status, index + 1)

\* Mutant: the configured changes, and a COMPLETE job may be dispatched
\* again.
update_classifier_training_jobs_status_reopen(js, job_ids, status) ==
    LET models == get_multi(js, job_ids)
        ok == \A i \in 1..Len(models) :
                 /\ models[i] # None
                 /\ \/ status \in
                         ALLOWED_TRAINING_JOB_STATUS_CHANGES[models[i].status]
                    \/ /\ models[i].status = TRAINING_JOB_STATUS_COMPLETE
                       /\ status = TRAINING_JOB_STATUS_PENDING
    IN  IF ok
        THEN [raised |-> FALSE,
              jobs |-> put_multi(js, job_ids,
                         [i \in 1..Len(models) |->
                            [models[i] EXCEPT !.status = status]])]
        ELSE [raised |-> TRUE, jobs |-> js]

\* Mutant: no allowed-set check at all.
update_classifier_training_jobs_status_unchecked(js, job_ids, status) ==
    LET r == update_status_loop_unchecked(get_multi(js, job_ids), status, 1)
    IN  IF r.raised THEN [raised |-> TRUE, jobs |-> js]
        ELSE [raised |-> FALSE, jobs |-> put_multi(js, job_ids, r.models)]

\* Mutant: each model is written as soon as it is updated, so the models
\* before the failing one are stored although the call raises.
update_classifier_training_jobs_status_persist_as_they_go(js, job_ids, status) ==
    LET r == update_status_loop(get_multi(js, job_ids), status, 1)
        done == { i \in 1..Len(job_ids) :
                    /\ r.models[i] # None
                    /\ r.models[i].status = status
                    /\ job_ids[i] \in 1..Len(js)
                    /\ js[job_ids[i]].status # status }
    IN  [raised |-> r.raised,
         jobs |-> [ j \in 1..Len(js) |->
                      IF \E i \in done : job_ids[i] = j
                      THEN [js[j] EXCEPT !.status = status] ELSE js[j] ]]

\* _update_classifier_training_jobs_status(job_ids, status): get_multi, the
\* loop, and put_multi only when the loop raised nothing.
update_classifier_training_jobs_status(js, job_ids, status) ==
    LET r == update_status_loop(get_multi(js, job_ids), status, 1)
    IN  IF r.raised THEN [raised |-> TRUE, jobs |-> js]
        ELSE [raised |-> FALSE, jobs |-> put_multi(js, job_ids, r.models)]

mark_training_job_complete(js, job_id) ==
    update_classifier_training_jobs_status(
        js, <<job_id>>, TRAINING_JOB_STATUS_COMPLETE)

mark_training_jobs_failed(js, job_ids) ==
    update_classifier_training_jobs_status(
        js, job_ids, TRAINING_JOB_STATUS_FAILED)

mark_training_job_pending(js, job_id) ==
    update_classifier_training_jobs_status(
        js, <<job_id>>, TRAINING_JOB_STATUS_PENDING)

\* One iteration of the loop of _update_classifier_training_jobs_status, for
\* the model at index fetched earlier by get_multi: the None check, the
\* allowed-change check on the fetched model, then the job is read again
\* from the store js by get_classifier_training_job_by_id, the domain object
\* checks the change again (update_status) and is validated, and the
\* fetched model takes the new status in memory.
update_status_iteration(js, models, job_ids, status, index) ==
    IF models[index] = None THEN [raised |-> TRUE, models |-> models]
    ELSE IF status \notin
              ALLOWED_TRAINING_JOB_STATUS_CHANGES[models[index].status]
         THEN [raised |-> TRUE, models |-> models]
    ELSE IF \/ job_ids[index] \notin 1..Len(js)
            \/ js[job_ids[index]] = None
         THEN [raised |-> TRUE, models |-> models]
    ELSE IF status \notin
              ALLOWED_TRAINING_JOB_STATUS_CHANGES[js[job_ids[index]].status]
         THEN [raised |-> TRUE, models |-> models]
    ELSE IF ~validate([js[job_ids[index]] EXCEPT !.status = status])
         THEN [raised |-> TRUE, models |-> models]
    ELSE [raised |-> FALSE,
          models |-> [models EXCEPT ![index].status = status]]

----------------------------------------------------------------------------
\* The scheduler's dequeue.

\* Mutant: the lease is the bare TTL, utcnow() is forgotten.
update_job_next_scheduled_check_time_no_clock(js, job_id, t) ==
    IF job_id \notin 1..Len(js) THEN [raised |-> TRUE, jobs |-> js]
    ELSE [raised |-> FALSE,
          jobs |-> [js EXCEPT ![job_id].next_scheduled_check_time =
                                  CLASSIFIER_JOB_TTL_MINS]]

\* Mutant: the lease also marks the job as dispatched.
update_job_next_scheduled_check_time_dispatching(js, job_id, t) ==
    IF job_id \notin 1..Len(js) THEN [raised |-> TRUE, jobs |-> js]
    ELSE [raised |-> FALSE,
          jobs |-> [js EXCEPT ![job_id].next_scheduled_check_time =
                                  t + CLASSIFIER_JOB_TTL_MINS,
                              ![job_id].status = TRAINING_JOB_STATUS_PENDING]]

\* _update_job_next_scheduled_check_time(job_id), called at time t.
update_job_next_scheduled_check_time(js, job_id, t) ==
    IF job_id \notin 1..Len(js) THEN [raised |-> TRUE, jobs |-> js]
    ELSE [raised |-> FALSE,
          jobs |-> [js EXCEPT ![job_id].next_scheduled_check_time =
                                  t + CLASSIFIER_JOB_TTL_MINS]]

\* Mutant: only the first PENDING job of a page is collected.
failed_job_ids_of_first_only(js, page) ==
    LET p == SelectSeq(page,
                 LAMBDA id : js[id].status = TRAINING_JOB_STATUS_PENDING)
    IN  IF Len(p) = 0 THEN p ELSE <<p[1]>>

\* The ids a scanned page adds to failed_job_ids: its PENDING jobs.
failed_job_ids_of(js, page) ==
    SelectSeq(page, LAMBDA id : js[id].status = TRAINING_JOB_STATUS_PENDING)

\* The ids a scanned page adds to valid_jobs: every other job.
valid_jobs_of(js, page) ==
    SelectSeq(page, LAMBDA id : js[id].status # TRAINING_JOB_STATUS_PENDING)

\* Mutant: the loop has no break on the last page.
loop_continues_no_break(valid_jobs, more) == Len(valid_jobs) = 0

\* Whether the while loop of fetch_next_job runs another iteration.
loop_continues(valid_jobs, more) == Len(valid_jobs) = 0 /\ more

\* Mutant: the last collected job is handed out.
next_valid_job_last(valid_jobs) == valid_jobs[Len(valid_jobs)]

\* The job fetch_next_job hands out: valid_jobs[0].
next_valid_job(valid_jobs) == valid_jobs[1]

\* The scan loop of fetch_next_job, from a cursor and the lists so far.
RECURSIVE scan_loop(_, _, _, _)
scan_loop(js, cursor, valid_jobs, failed_job_ids) ==
    LET q == query_training_jobs(js, cursor)
        v == valid_jobs \o valid_jobs_of(js, q.page)
        f == failed_job_ids \o failed_job_ids_of(js, q.page)
    IN  IF loop_continues(v, q.more)
        THEN scan_loop(js, q.cursor, v, f)
        ELSE [valid_jobs |-> v, failed_job_ids |-> f, cursor |-> q.cursor]

\* fetch_next_job() called at time t as one step: the scan, the bulk
\* failure of the collected PENDING jobs, the lease of valid_jobs[0].
\* failed is the list handed to mark_training_jobs_failed.
fetch_next_job(js, t) ==
    LET s == scan_loop(js, 0, <<>>, <<>>)
        u == IF Len(s.failed_job_ids) > 0
             THEN mark_training_jobs_failed(js, s.failed_job_ids)
             ELSE [raised |-> FALSE, jobs |-> js]
    IN  IF u.raised
        THEN [raised |-> TRUE, jobs |-> u.jobs, job |-> NoJob,
              failed |-> s.failed_job_ids]
        ELSE IF Len(s.valid_jobs) > 0
        THEN LET l == update_job_next_scheduled_check_time(
                          u.jobs, next_valid_job(s.valid_jobs), t)
             IN  [raised |-> l.raised, jobs |-> l.jobs,
                  job |-> IF l.raised THEN NoJob
                          ELSE next_valid_job(s.valid_jobs),
                  failed |-> s.failed_job_ids]
        ELSE [raised |-> FALSE, jobs |-> u.jobs, job |-> NoJob,
              failed |-> s.failed_job_ids]

\* Mutant: the model is created without validating the dummy job.
create_classifier_training_job_unvalidated(js, algorithm_id, interaction_id, exp_id, exp_ver, state_name, training_data, status, t) ==
    LET job == [status |-> status, next_scheduled_check_time |-> t,
                algorithm_id |-> algorithm_id,
                interaction_id |-> interaction_id, exp_id |-> exp_id,
                exp_version |-> exp_ver, state_name |-> state_name,
                training_data |-> training_data]
    IN  [raised |-> FALSE, jobs |-> Append(js, job), job |-> Len(js) + 1]

\* create_classifier_training_job(algorithm_id, interaction_id, exp_id,
\* exp_version, state_name, training_data, status) at time t: validate a
\* dummy job, then create the model with next_scheduled_check_time =
\* utcnow().
create_classifier_training_job(js, algorithm_id, interaction_id, exp_id, exp_ver, state_name, training_data, status, t) ==
    LET job == [status |-> status, next_scheduled_check_time |-> t,
                algorithm_id |-> algorithm_id,
                interaction_id |-> interaction_id, exp_id |-> exp_id,
                exp_version |-> exp_ver, state_name |-> state_name,
                training_data |-> training_data]
    IN  IF validate(job)
        THEN [raised |-> FALSE, jobs |-> Append(js, job), job |-> Len(js) + 1]
        ELSE [raised |-> TRUE, jobs |-> js, job |-> NoJob]

----------------------------------------------------------------------------
\* Explorations, mappings and carried-over states.

\* The interaction of each state of the exploration; "Continue" has no
\* classifier.
ExplorationId == "exp1"
ExplorationStates ==
    [Home |-> "TextInput", End |-> "CodeRepl", Intro |-> "Continue"]

\* state.get_training_data()
TrainingDataOf(state_name) == <<state_name, "answers">>

Exploration(version) ==
    [id |-> ExplorationId, version |-> version, states |-> ExplorationStates]

\* TrainingJobExplorationMapping.validate()
validate_mapping(m) == m.exp_version \in Nat /\ m.job_id \in Nat

MappingKey(m) ==
    [exp_id |-> m.exp_id, exp_version |-> m.exp_version,
     state_name |-> m.state_name]

\* Mutant: the mappings are added without looking at the keys.
create_multi_mappings_unkeyed(ms, new_mappings) ==
    [raised |-> FALSE,
     mappings |-> ms \cup { new_mappings[i] : i \in 1..Len(new_mappings) }]

\* TrainingJobExplorationMappingModel.create_multi(mappings): all or
\* nothing; a key that is already stored, or that the batch holds twice,
\* fails the batch.
create_multi_mappings(ms, new_mappings) ==
    LET idx == 1..Len(new_mappings)
        clash ==
            \/ \E i \in idx : \E m \in ms :
                  MappingKey(m) = MappingKey(new_mappings[i])
            \/ \E i, k \in idx :
                  i # k /\ MappingKey(new_mappings[i]) = MappingKey(new_mappings[k])
    IN  IF clash
        THEN [raised |-> TRUE, mappings |-> ms]
        ELSE [raised |-> FALSE,
              mappings |-> ms \cup { new_mappings[i] : i \in idx }]

\* TrainingJobExplorationMappingModel.get_models(exp_id, exp_version,
\* state_names): one entry per state name, None where no mapping is stored.
get_models(ms, exp_id, exp_ver, state_names) ==
    [ i \in 1..Len(state_names) |->
        LET found == { m \in ms : /\ m.exp_id = exp_id
                                  /\ m.exp_version = exp_ver
                                  /\ m.state_name = state_names[i] }
        IN  IF found = {} THEN None ELSE CHOOSE m \in found : TRUE ]

\* ClassifierTrainingJobModel.create_multi(job_dicts_list): the models are
\* appended in order, with next_scheduled_check_time = utcnow().
RECURSIVE create_multi(_, _, _)
create_multi(js, job_dicts_list, t) ==
    IF job_dicts_list = <<>> THEN js
    ELSE create_multi(
             Append(js, [status |-> Head(job_dicts_list).status,
                         next_scheduled_check_time |-> t,
                         algorithm_id |-> Head(job_dicts_list).algorithm_id,
                         interaction_id |-> Head(job_dicts_list).interaction_id,
                         exp_id |-> Head(job_dicts_list).exp_id,
                         exp_version |-> Head(job_dicts_list).exp_version,
                         state_name |-> Head(job_dicts_list).state_name,
                         training_data |-> Head(job_dicts_list).training_data]),
             Tail(job_dicts_list), t)

\* The job dict handle_trainable_states builds for one state.
JobDict(exploration, state_name) ==
    LET interaction_id == exploration.states[state_name]
    IN  [algorithm_id |->
             INTERACTION_CLASSIFIER_MAPPING[interaction_id].algorithm_id,
         interaction_id |-> interaction_id,
         exp_id |-> exploration.id,
         exp_version |-> exploration.version,
         state_name |-> state_name,
         training_data |-> TrainingDataOf(state_name),
         status |-> TRAINING_JOB_STATUS_NEW]

\* The first loop of handle_trainable_states passes for a state when the
\* state exists, its interaction has a classifier and the dummy job
\* validates.
CandidateJobValid(exploration, state_name, t) ==
    /\ state_name \in DOMAIN exploration.states
    /\ exploration.states[state_name] \in DOMAIN INTERACTION_CLASSIFIER_MAPPING
    /\ validate([next_scheduled_check_time |-> t]
                @@ JobDict(exploration, state_name))

\* Mutant: every mapping is given the id of the first job of the batch.
handle_trainable_states_first_job_id(js, ms, exploration, state_names, t) ==
    IF \E i \in 1..Len(state_names) :
           ~CandidateJobValid(exploration, state_names[i], t)
    THEN [raised |-> TRUE, error |-> "job", jobs |-> js, mappings |-> ms]
    ELSE LET job_dicts_list == [ i \in 1..Len(state_names) |->
                                   JobDict(exploration, state_names[i]) ]
             new_jobs == create_multi(js, job_dicts_list, t)
             job_exploration_mappings ==
                 [ i \in 1..Len(state_names) |->
                     [exp_id |-> job_dicts_list[i].exp_id,
                      exp_version |-> job_dicts_list[i].exp_version,
                      state_name |-> job_dicts_list[i].state_name,
                      job_id |-> Len(js) + 1] ]
             r == create_multi_mappings(ms, job_exploration_mappings)
         IN  [raised |-> r.raised,
              error |-> IF r.raised THEN "mapping" ELSE "",
              jobs |-> new_jobs, mappings |-> r.mappings]

\* The longest prefix of state_names whose candidate jobs all pass.
RECURSIVE ValidPrefix(_, _, _)
ValidPrefix(exploration, state_names, t) ==
    IF state_names = <<>> THEN <<>>
    ELSE IF ~CandidateJobValid(exploration, Head(state_names), t) THEN <<>>
    ELSE <<Head(state_names)>>
         \o ValidPrefix(exploration, Tail(state_names), t)

\* Mutant: each job is created as soon as its candidate validates, so the
\* jobs before the failing candidate are stored although the call raises.
handle_trainable_states_persist_as_they_go(js, ms, exploration, state_names, t) ==
    IF \E i \in 1..Len(state_names) :
           ~CandidateJobValid(exploration, state_names[i], t)
    THEN LET valid == ValidPrefix(exploration, state_names, t)
         IN  [raised |-> TRUE, error |-> "job",
              jobs |-> create_multi(js, [ i \in 1..Len(valid) |->
                                           JobDict(exploration, valid[i]) ], t),
              mappings |-> ms]
    ELSE handle_trainable_states_first_job_id(js, ms, exploration,
                                              state_names, t)

\* Mutant: the jobs of the call are removed again when the mapping batch
\* fails.
handle_trainable_states_rollback(js, ms, exploration, state_names, t) ==
    IF \E i \in 1..Len(state_names) :
           ~CandidateJobValid(exploration, state_names[i], t)
    THEN [raised |-> TRUE, error |-> "job", jobs |-> js, mappings |-> ms]
    ELSE LET job_dicts_list == [ i \in 1..Len(state_names) |->
                                   JobDict(exploration, state_names[i]) ]
             job_exploration_mappings ==
                 [ i \in 1..Len(state_names) |->
                     [exp_id |-> job_dicts_list[i].exp_id,
                      exp_version |-> job_dicts_list[i].exp_version,
                      state_name |-> job_dicts_list[i].state_name,
                      job_id |-> Len(js) + i] ]
             r == create_multi_mappings(ms, job_exploration_mappings)
         IN  [raised |-> r.raised,
              error |-> IF r.raised THEN "mapping" ELSE "",
              jobs |-> IF r.raised THEN js
                       ELSE create_multi(js, job_dicts_list, t),
              mappings |-> r.mappings]

\* handle_trainable_states(exploration, state_names) at time t.
\* Mutant: the mappings are stored for job ids whose jobs are not.
handle_trainable_states_unsaved_jobs(js, ms, exploration, state_names, t) ==
    LET r == handle_trainable_states_rollback(
                 js, ms, exploration, state_names, t)
        job_exploration_mappings ==
            [ i \in 1..Len(state_names) |->
                [exp_id |-> exploration.id,
                 exp_version |-> exploration.version,
                 state_name |-> state_names[i],
                 job_id |-> Len(js) + i] ]
    IN  IF r.raised THEN r
        ELSE [raised |-> FALSE, error |-> "", jobs |-> js,
              mappings |-> ms \cup { job_exploration_mappings[i] :
                                       i \in 1..Len(state_names) }]

handle_trainable_states(js, ms, exploration, state_names, t) ==
    IF \E i \in 1..Len(state_names) :
           ~CandidateJobValid(exploration, state_names[i], t)
    THEN [raised |-> TRUE, error |-> "job", jobs |-> js, mappings |-> ms]
    ELSE LET job_dicts_list == [ i \in 1..Len(state_names) |->
                                   JobDict(exploration, state_names[i]) ]
             new_jobs == create_multi(js, job_dicts_list, t)
             job_ids == [ i \in 1..Len(state_names) |-> Len(js) + i ]
             job_exploration_mappings ==
                 [ i \in 1..Len(job_ids) |->
                     [exp_id |-> job_dicts_list[i].exp_id,
                      exp_version |-> job_dicts_list[i].exp_version,
                      state_name |-> job_dicts_list[i].state_name,
                      job_id |-> job_ids[i]] ]
         IN  IF \E i \in 1..Len(job_ids) :
                    ~validate_mapping(job_exploration_mappings[i])
             THEN [raised |-> TRUE, error |-> "mapping",
                   jobs |-> new_jobs, mappings |-> ms]
             ELSE LET r == create_multi_mappings(ms, job_exploration_mappings)
                  IN  [raised |-> r.raised,
                       error |-> IF r.raised THEN "mapping" ELSE "",
                       jobs |-> new_jobs, mappings |-> r.mappings]

\* list.insert(index, x) for a 0-based index, at 1-based position pos.
InsertAt(list, pos, x) ==
    LET k == Min(pos - 1, Len(list))
    IN  SubSeq(list, 1, k) \o <<x>> \o SubSeq(list, k + 1, Len(list))

\* "Backfill None's to maintain indexes."
RECURSIVE backfill(_, _, _)
backfill(classifier_training_jobs, mapping_models, index) ==
    IF index > Len(mapping_models) THEN classifier_training_jobs
    ELSE IF mapping_models[index] = None
         THEN backfill(InsertAt(classifier_training_jobs, index, None),
                       mapping_models, index + 1)
         ELSE backfill(classifier_training_jobs, mapping_models, index + 1)

\* get_classifier_training_job_from_model(model): reads the model's
\* attributes, which fails on None.
get_classifier_training_job_from_model(job_id, model) ==
    [job_id |-> job_id, algorithm_id |-> model.algorithm_id,
     interaction_id |-> model.interaction_id, exp_id |-> model.exp_id,
     exp_version |-> model.exp_version,
     next_scheduled_check_time |-> model.next_scheduled_check_time,
     state_name |-> model.state_name, status |-> model.status,
     training_data |-> model.training_data]

\* get_classifier_training_jobs(exp_id, exp_version, state_names): raised
\* when a mapping names a job the store does not hold.
get_classifier_training_jobs(js, ms, exp_id, exp_ver, state_names) ==
    LET mapping_models == get_models(ms, exp_id, exp_ver, state_names)
        IsModel(m) == m # None
        present == SelectSeq(mapping_models, IsModel)
        job_ids == [ i \in 1..Len(present) |-> present[i].job_id ]
        job_models == get_multi(js, job_ids)
    IN  IF \E i \in 1..Len(job_models) : job_models[i] = None
        THEN [raised |-> TRUE, jobs |-> <<>>]
        ELSE [raised |-> FALSE,
              jobs |-> backfill(
                  [ i \in 1..Len(job_models) |->
                      get_classifier_training_job_from_model(
                          job_ids[i], job_models[i]) ],
                  mapping_models, 1)]

\* Mutant: a new job is trained for every carried-over state.
handle_non_retrainable_states_retrain(js, ms, exploration, state_names, new_to_old_state_names) ==
    LET r == handle_trainable_states(js, ms, exploration, state_names, 0)
    IN  [raised |-> r.raised, error |-> r.error,
         jobs |-> r.jobs, mappings |-> r.mappings,
         state_names_to_retrieve |-> <<>>]

\* Mutant: the version is not checked and no old job is found, so the call
\* returns having created nothing.
handle_non_retrainable_states_no_version_check(js, ms, exploration, state_names, new_to_old_state_names) ==
    IF \E i \in 1..Len(state_names) :
           state_names[i] \notin DOMAIN new_to_old_state_names
    THEN [raised |-> TRUE, error |-> "KeyError", jobs |-> js, mappings |-> ms,
          state_names_to_retrieve |-> <<>>]
    ELSE [raised |-> FALSE, error |-> "", jobs |-> js, mappings |-> ms,
          state_names_to_retrieve |->
              [ i \in 1..Len(state_names) |->
                  new_to_old_state_names[state_names[i]] ]]

\* The mappings handle_non_retrainable_states builds: one for every entry
\* of classifier_training_jobs that is not None, in order.
RECURSIVE carried_over_mappings(_, _, _, _)
carried_over_mappings(exploration, state_names, classifier_training_jobs, index) ==
    IF index > Len(classifier_training_jobs) THEN <<>>
    ELSE IF classifier_training_jobs[index] = None
         THEN carried_over_mappings(
                  exploration, state_names, classifier_training_jobs, index + 1)
         ELSE <<[exp_id |-> exploration.id,
                 exp_version |-> exploration.version,
                 state_name |-> state_names[index],
                 job_id |-> classifier_training_jobs[index].job_id]>>
              \o carried_over_mappings(
                  exploration, state_names, classifier_training_jobs, index + 1)

\* handle_non_retrainable_states(exploration, state_names,
\* new_to_old_state_names).
handle_non_retrainable_states(js, ms, exploration, state_names, new_to_old_state_names) ==
    IF exploration.version - 1 <= 0
    THEN [raised |-> TRUE, error |-> "version", jobs |-> js, mappings |-> ms,
          state_names_to_retrieve |-> <<>>]
    ELSE IF \E i \in 1..Len(state_names) :
                state_names[i] \notin DOMAIN new_to_old_state_names
    THEN [raised |-> TRUE, error |-> "KeyError", jobs |-> js, mappings |-> ms,
          state_names_to_retrieve |-> <<>>]
    ELSE
      LET state_names_to_retrieve ==
              [ i \in 1..Len(state_names) |->
                  new_to_old_state_names[state_names[i]] ]
          got == get_classifier_training_jobs(
                     js, ms, exploration.id, exploration.version - 1,
                     state_names_to_retrieve)
      IN  IF got.raised
          THEN [raised |-> TRUE, error |-> "AttributeError",
                jobs |-> js, mappings |-> ms,
                state_names_to_retrieve |-> state_names_to_retrieve]
          ELSE
            LET job_exploration_mappings ==
                    carried_over_mappings(exploration, state_names, got.jobs, 1)
            IN  IF \E i \in 1..Len(job_exploration_mappings) :
                       ~validate_mapping(job_exploration_mappings[i])
                THEN [raised |-> TRUE, error |-> "mapping",
                      jobs |-> js, mappings |-> ms,
                      state_names_to_retrieve |-> state_names_to_retrieve]
                ELSE LET r == create_multi_mappings(
                                  ms, job_exploration_mappings)
                     IN  [raised |-> r.raised,
                          error |-> IF r.raised THEN "mapping" ELSE "",
                          jobs |-> js, mappings |-> r.mappings,
                          state_names_to_retrieve |->
                              state_names_to_retrieve]

\* ClassifierTrainingJobModel.get(job_id): strict, an id the store does not
\* hold raises.
Holds(js, job_id) == job_id \in 1..Len(js) /\ js[job_id] # None

\* delete_classifier_training_job(job_id): get the job model, which raises
\* when the store does not hold it, and delete it; no other record is
\* touched.
delete_classifier_training_job(js, cs, job_id) ==
    IF Holds(js, job_id)
    THEN [raised |-> FALSE, jobs |-> [js EXCEPT ![job_id] = None],
          classifiers |-> cs]
    ELSE [raised |-> TRUE, jobs |-> js, classifiers |-> cs]

\* ClassifierDataModel.get(classifier_id, strict=False)
get_classifier_data_model(cs, classifier_id) ==
    LET found == { c \in cs : c.id = classifier_id }
    IN  IF found = {} THEN None ELSE CHOOSE c \in found : TRUE

\* ClassifierDataModel.create(classifier_id, ...): the record is stored
\* under classifier_id.
create_classifier_data_model(cs, classifier) ==
    { c \in cs : c.id # classifier.id } \cup {classifier}

\* ClassifierData.validate()
validate_classifier(classifier) ==
    /\ classifier.exp_version_when_created \in Nat
    /\ classifier.data_schema_version \in Nat

\* The ClassifierData create_classifier builds from the job.
ClassifierOf(job_id, job, classifier_data) ==
    [id |-> job_id, exp_id |-> job.exp_id,
     exp_version_when_created |-> job.exp_version,
     state_name |-> job.state_name, algorithm_id |-> job.algorithm_id,
     classifier_data |-> classifier_data,
     data_schema_version |->
         INTERACTION_CLASSIFIER_MAPPING[job.interaction_id]
             .current_data_schema_version]

\* Mutant: the data is stored without looking for an existing record.
create_classifier_no_exists_check(js, cs, job_id, classifier_data) ==
    IF ~Holds(js, job_id)
    THEN [raised |-> TRUE, error |-> "not found", classifiers |-> cs]
    ELSE [raised |-> FALSE, error |-> "",
          classifiers |-> create_classifier_data_model(
              cs, ClassifierOf(job_id, js[job_id], classifier_data))]

\* create_classifier(job_id, classifier_data)
create_classifier(js, cs, job_id, classifier_data) ==
    IF get_classifier_data_model(cs, job_id) # None
    THEN [raised |-> TRUE, error |-> "exists", classifiers |-> cs]
    ELSE IF ~Holds(js, job_id)
    THEN [raised |-> TRUE, error |-> "not found", classifiers |-> cs]
    ELSE IF \/ js[job_id].interaction_id
                   \notin DOMAIN INTERACTION_CLASSIFIER_MAPPING
            \/ INTERACTION_CLASSIFIER_MAPPING[js[job_id].interaction_id]
                   .algorithm_id # js[job_id].algorithm_id
    THEN [raised |-> TRUE, error |-> "algorithm", classifiers |-> cs]
    ELSE LET classifier == ClassifierOf(job_id, js[job_id], classifier_data)
         IN  IF ~validate_classifier(classifier)
             THEN [raised |-> TRUE, error |-> "validate", classifiers |-> cs]
             ELSE [raised |-> FALSE, error |-> "",
                   classifiers |->
                       create_classifier_data_model(cs, classifier)]

\* delete_classifier(classifier_id): get the model, which raises when the
\* store does not hold it, and delete it.
delete_classifier(cs, classifier_id) ==
    IF get_classifier_data_model(cs, classifier_id) = None
    THEN [raised |-> TRUE, classifiers |-> cs]
    ELSE [raised |-> FALSE,
          classifiers |-> { c \in cs : c.id # classifier_id }]

\* classifier_domain.ClassifierData(classifier_id, exp_id,
\* exp_version_when_created, state_name, algorithm_id, classifier_data,
\* data_schema_version)
ClassifierData(classifier_id, exp_id, exp_version_when_created, state_name, algorithm_id, classifier_data, data_schema_version) ==
    [id |-> classifier_id, exp_id |-> exp_id,
     exp_version_when_created |-> exp_version_when_created,
     state_name |-> state_name, algorithm_id |-> algorithm_id,
     classifier_data |-> classifier_data,
     data_schema_version |-> data_schema_version]

get_classifier_from_model_swapped(classifier_data_model) ==
    ClassifierData(
        classifier_data_model.id, classifier_data_model.exp_id,
        classifier_data_model.exp_version_when_created,
        classifier_data_model.algorithm_id, classifier_data_model.state_name,
        classifier_data_model.classifier_data,
        classifier_data_model.data_schema_version)

\* get_classifier_from_model(classifier_data_model)
get_classifier_from_model(classifier_data_model) ==
    ClassifierData(
        classifier_data_model.id, classifier_data_model.exp_id,
        classifier_data_model.exp_version_when_created,
        classifier_data_model.state_name, classifier_data_model.algorithm_id,
        classifier_data_model.classifier_data,
        classifier_data_model.data_schema_version)

\* get_classifier_by_id(classifier_id): the get is strict and raises when
\* the store does not hold the id.
get_classifier_by_id(cs, classifier_id) ==
    LET classifier_data_model == get_classifier_data_model(cs, classifier_id)
    IN  IF classifier_data_model = None
        THEN [raised |-> TRUE, classifier |-> None]
        ELSE [raised |-> FALSE,
              classifier |-> get_classifier_from_model(classifier_data_model)]

get_classifier_training_job_by_id_leasing(js, job_id) ==
    IF ~Holds(js, job_id)
    THEN [raised |-> TRUE, job |-> None, jobs |-> js]
    ELSE [raised |-> FALSE,
          job |-> get_classifier_training_job_from_model(job_id, js[job_id]),
          jobs |-> [js EXCEPT ![job_id].status = TRAINING_JOB_STATUS_PENDING]]

\* get_classifier_training_job_by_id(job_id): the get is strict and raises
\* when the store does not hold the id. jobs is the store after the call,
\* which makes no put.
get_classifier_training_job_by_id(js, job_id) ==
    IF ~Holds(js, job_id)
    THEN [raised |-> TRUE, job |-> None, jobs |-> js]
    ELSE [raised |-> FALSE,
          job |-> get_classifier_training_job_from_model(job_id, js[job_id]),
          jobs |-> js]

----------------------------------------------------------------------------
\* State machine: service calls as single steps.

Workers == {"w1", "w2"}

NoLease == [job |-> NoJob, at |-> 0, until |-> 0]
InitLoc == [cursor |-> 0, valid_jobs |-> <<>>, failed_job_ids |-> <<>>]

\* The job-id lists passed to mark_training_jobs_failed: one id, or two
\* distinct ids in either order, over 1..cap (ids the store lacks included).
DistinctBatches(cap) ==
    { <<j>> : j \in 1..cap } \cup
    { b \in { <<j, k>> : j \in 1..cap, k \in 1..cap } : b[1] # b[2] }

\* The record of a call: its name, the job ids it was given (for
\* fetch_next_job, the ids it bulk-failed), whether it raised, and the job it
\* returned or created.
Call(op, ids, raised, job) ==
    [op |-> op, ids |-> ids, raised |-> raised, job |-> job]

Init ==
    /\ jobs = <<>>
    /\ now = 0
    /\ ret = Call("init", <<>>, FALSE, NoJob)
    /\ pc = [w \in Workers |-> "idle"]
    /\ loc = [w \in Workers |-> InitLoc]
    /\ lease = [w \in Workers |-> NoLease]
    /\ mappings = {}
    /\ classifiers = {}
    /\ exp_version = 1
    /\ log = <<>>
    /\ questions = <<>>

\* The exploration, state and training data of the jobs the scheduler's
\* specifications create.
SchedExpId == "exp1"
SchedStateName == "Home"
SchedTrainingData == "answers"

CreateClassifierTrainingJob(cap) ==
    /\ Len(jobs) < cap
    /\ \E status \in ALLOWED_TRAINING_JOB_STATUSES \cup {BogusStatus} :
         LET r == create_classifier_training_job(
                      jobs, "LDAStringClassifier", "TextInput", SchedExpId, 1,
                      SchedStateName, SchedTrainingData, status, now)
         IN  /\ jobs' = r.jobs
             /\ ret' = Call("create", <<>>, r.raised, r.job)
    /\ UNCHANGED <<now, pc, loc, lease>>
    /\ UNCHANGED storeVars

MarkTrainingJobPending(cap) ==
    /\ \E job_id \in 1..cap :
         LET r == mark_training_job_pending(jobs, job_id)
         IN  /\ jobs' = r.jobs
             /\ ret' = Call("mark_pending", <<job_id>>, r.raised, NoJob)
    /\ UNCHANGED <<now, pc, loc, lease>>
    /\ UNCHANGED storeVars

MarkTrainingJobComplete(cap) ==
    /\ \E job_id \in 1..cap :
         LET r == mark_training_job_complete(jobs, job_id)
         IN  /\ jobs' = r.jobs
             /\ ret' = Call("mark_complete", <<job_id>>, r.raised, NoJob)
    /\ UNCHANGED <<now, pc, loc, lease>>
    /\ UNCHANGED storeVars

MarkTrainingJobsFailed(cap) ==
    /\ \E job_ids \in DistinctBatches(cap) :
         LET r == mark_training_jobs_failed(jobs, job_ids)
         IN  /\ jobs' = r.jobs
             /\ ret' = Call("mark_failed", job_ids, r.raised, NoJob)
    /\ UNCHANGED <<now, pc, loc, lease>>
    /\ UNCHANGED storeVars

FetchNextJob ==
    /\ LET r == fetch_next_job(jobs, now)
       IN  /\ jobs' = r.jobs
           /\ ret' = Call("fetch", r.failed, r.raised, r.job)
    /\ UNCHANGED <<now, pc, loc, lease>>
    /\ UNCHANGED storeVars

Tick ==
    /\ now < MaxTime
    /\ now' = now + 1
    /\ ret' = Call("tick", <<>>, FALSE, NoJob)
    /\ UNCHANGED <<jobs, pc, loc, lease>>
    /\ UNCHANGED storeVars

Next ==
    \/ CreateClassifierTrainingJob(MaxJobs)
    \/ MarkTrainingJobPending(MaxJobs)
    \/ MarkTrainingJobComplete(MaxJobs)
    \/ MarkTrainingJobsFailed(MaxJobs)
    \/ FetchNextJob

Spec == Init /\ [][Next]_vars

TimedNext ==
    \/ CreateClassifierTrainingJob(MaxTimedJobs)
    \/ MarkTrainingJobPending(MaxTimedJobs)
    \/ MarkTrainingJobComplete(MaxTimedJobs)
    \/ FetchNextJob
    \/ Tick

TimedSpec == Init /\ [][TimedNext]_vars

----------------------------------------------------------------------------
\* State machine: fetch_next_job of each worker as separate steps (one scan
\* iteration, the bulk failure, the lease), interleaved with other calls.

\* fetch_next_job is entered: cursor = None, valid_jobs = [], failed = [].
FetchStart(w) ==
    /\ pc[w] = "idle"
    /\ pc' = [pc EXCEPT ![w] = "scan"]
    /\ loc' = [loc EXCEPT ![w] = InitLoc]
    /\ lease' = [lease EXCEPT ![w] = NoLease]
    /\ UNCHANGED <<jobs, now, ret>>
    /\ UNCHANGED storeVars

\* One iteration of the while loop: query a page, sort its jobs into
\* failed_job_ids and valid_jobs, then leave the loop or go round again.
ScanPage(w) ==
    /\ pc[w] = "scan"
    /\ LET q == query_training_jobs(jobs, loc[w].cursor)
           v == loc[w].valid_jobs \o valid_jobs_of(jobs, q.page)
           f == loc[w].failed_job_ids \o failed_job_ids_of(jobs, q.page)
       IN  /\ loc' = [loc EXCEPT ![w] = [cursor |-> q.cursor,
                                         valid_jobs |-> v,
                                         failed_job_ids |-> f]]
           /\ pc' = [pc EXCEPT ![w] =
                        IF loop_continues(v, q.more) THEN "scan" ELSE "mark"]
    /\ UNCHANGED <<jobs, now, ret, lease>>
    /\ UNCHANGED storeVars

\* if len(failed_job_ids) > 0: mark_training_jobs_failed(failed_job_ids).
\* An exception ends the call.
MarkFailedStep(w) ==
    /\ pc[w] = "mark"
    /\ LET r == IF Len(loc[w].failed_job_ids) > 0
                THEN mark_training_jobs_failed(jobs, loc[w].failed_job_ids)
                ELSE [raised |-> FALSE, jobs |-> jobs]
       IN  /\ jobs' = r.jobs
           /\ IF r.raised
              THEN /\ pc' = [pc EXCEPT ![w] = "idle"]
                   /\ loc' = [loc EXCEPT ![w] = InitLoc]
                   /\ ret' = Call("fetch", loc[w].failed_job_ids, TRUE, NoJob)
              ELSE /\ pc' = [pc EXCEPT ![w] = "lease"]
                   /\ UNCHANGED <<loc, ret>>
    /\ UNCHANGED <<now, lease>>
    /\ UNCHANGED storeVars

\* The lease of valid_jobs[0] and the return of the call.
LeaseStep(w) ==
    /\ pc[w] = "lease"
    /\ IF Len(loc[w].valid_jobs) > 0
       THEN LET job_id == next_valid_job(loc[w].valid_jobs)
                l == update_job_next_scheduled_check_time(jobs, job_id, now)
            IN  /\ jobs' = l.jobs
                /\ ret' = Call("fetch", loc[w].failed_job_ids, l.raised,
                               IF l.raised THEN NoJob ELSE job_id)
                /\ lease' = [lease EXCEPT ![w] =
                               IF l.raised THEN NoLease
                               ELSE [job |-> job_id, at |-> now,
                                     until |-> now + CLASSIFIER_JOB_TTL_MINS]]
       ELSE /\ ret' = Call("fetch", loc[w].failed_job_ids, FALSE, NoJob)
            /\ UNCHANGED <<jobs, lease>>
    /\ pc' = [pc EXCEPT ![w] = "idle"]
    /\ loc' = [loc EXCEPT ![w] = InitLoc]
    /\ UNCHANGED now
    /\ UNCHANGED storeVars

FetchStep(w) == ScanPage(w) \/ MarkFailedStep(w) \/ LeaseStep(w)

ConcNext ==
    \/ CreateClassifierTrainingJob(MaxConcJobs)
    \/ MarkTrainingJobPending(MaxConcJobs)
    \/ \E w \in Workers : FetchStart(w)
    \/ \E w \in Workers : ScanPage(w)
    \/ \E w \in Workers : MarkFailedStep(w)
    \/ \E w \in Workers : LeaseStep(w)

ConcSpec == Init /\ [][ConcNext]_vars

\* A worker inside fetch_next_job keeps running: the call is synchronous
\* code with no blocking wait.
FairConcSpec == ConcSpec /\ \A w \in Workers : WF_vars(FetchStep(w))

\* One worker's fetch_next_job followed step by step while jobs are created
\* and dispatched around it.
LoopWorker == "w1"

LoopNext ==
    \/ CreateClassifierTrainingJob(MaxLoopJobs)
    \/ MarkTrainingJobPending(MaxLoopJobs)
    \/ FetchStart(LoopWorker)
    \/ ScanPage(LoopWorker)
    \/ MarkFailedStep(LoopWorker)
    \/ LeaseStep(LoopWorker)

LoopSpec == Init /\ [][LoopNext]_vars

\* The call runs to its end once entered: fetch_next_job is synchronous
\* code, and each of its steps is taken when it is the next one.
FairLoopSpec == LoopSpec /\ WF_vars(FetchStep(LoopWorker))

----------------------------------------------------------------------------
\* State machine: _update_classifier_training_jobs_status as separate steps
\* (get_multi, one loop iteration at a time, put_multi), for a worker that
\* reclaims PENDING jobs in fetch_next_job and a worker that reports a job
\* as complete.

ReclaimWorker == "w1"
CompleteWorker == "w2"

\* The locals of _update_classifier_training_jobs_status, next to the ones
\* of the fetch_next_job call that made it.
UpdateLoc(l, op, job_ids, status, models) ==
    [cursor |-> l.cursor, valid_jobs |-> l.valid_jobs,
     failed_job_ids |-> l.failed_job_ids,
     op |-> op, job_ids |-> job_ids, status |-> status,
     models |-> models, index |-> 1]

\* fetch_next_job reaches mark_training_jobs_failed(failed_job_ids), whose
\* get_multi reads the models.
ReclaimGetMulti(w) ==
    /\ pc[w] = "mark"
    /\ IF Len(loc[w].failed_job_ids) > 0
       THEN /\ pc' = [pc EXCEPT ![w] = "update_loop"]
            /\ loc' = [loc EXCEPT ![w] =
                          UpdateLoc(loc[w], "fetch", loc[w].failed_job_ids,
                                    TRAINING_JOB_STATUS_FAILED,
                                    get_multi(jobs, loc[w].failed_job_ids))]
       ELSE /\ pc' = [pc EXCEPT ![w] = "lease"]
            /\ UNCHANGED loc
    /\ UNCHANGED <<jobs, now, ret, lease>>
    /\ UNCHANGED storeVars

\* mark_training_job_complete(job_id) is entered and its get_multi reads the
\* model.
CompleteGetMulti(w, cap) ==
    /\ pc[w] = "idle"
    /\ \E job_id \in 1..cap :
         loc' = [loc EXCEPT ![w] =
                    UpdateLoc(InitLoc, "complete", <<job_id>>,
                              TRAINING_JOB_STATUS_COMPLETE,
                              get_multi(jobs, <<job_id>>))]
    /\ pc' = [pc EXCEPT ![w] = "update_loop"]
    /\ UNCHANGED <<jobs, now, ret, lease>>
    /\ UNCHANGED storeVars

\* One iteration of the loop; an exception ends the call.
UpdateLoopStep(w) ==
    /\ pc[w] = "update_loop"
    /\ loc[w].index <= Len(loc[w].job_ids)
    /\ \E r \in { update_status_iteration(jobs, loc[w].models,
                        loc[w].job_ids, loc[w].status, loc[w].index) } :
         IF r.raised
         THEN /\ pc' = [pc EXCEPT ![w] = "idle"]
              /\ loc' = [loc EXCEPT ![w] = InitLoc]
              /\ ret' = Call(loc[w].op, loc[w].job_ids, TRUE, NoJob)
         ELSE /\ loc' = [loc EXCEPT ![w].models = r.models,
                                    ![w].index = loc[w].index + 1]
              /\ UNCHANGED <<pc, ret>>
    /\ UNCHANGED <<jobs, now, lease>>
    /\ UNCHANGED storeVars

\* put_multi writes the fetched models; fetch_next_job goes on to the
\* lease, mark_training_job_complete returns.
PutMultiStep(w) ==
    /\ pc[w] = "update_loop"
    /\ loc[w].index > Len(loc[w].job_ids)
    /\ jobs' = put_multi(jobs, loc[w].job_ids, loc[w].models)
    /\ IF loc[w].op = "fetch"
       THEN /\ pc' = [pc EXCEPT ![w] = "lease"]
            /\ UNCHANGED <<loc, ret>>
       ELSE /\ pc' = [pc EXCEPT ![w] = "idle"]
            /\ loc' = [loc EXCEPT ![w] = InitLoc]
            /\ ret' = Call(loc[w].op, loc[w].job_ids, FALSE, NoJob)
    /\ UNCHANGED <<now, lease>>
    /\ UNCHANGED storeVars

RaceNext ==
    \/ CreateClassifierTrainingJob(MaxRaceJobs)
    \/ MarkTrainingJobPending(MaxRaceJobs)
    \/ FetchStart(ReclaimWorker)
    \/ ScanPage(ReclaimWorker)
    \/ ReclaimGetMulti(ReclaimWorker)
    \/ CompleteGetMulti(CompleteWorker, MaxRaceJobs)
    \/ \E w \in Workers : UpdateLoopStep(w)
    \/ \E w \in Workers : PutMultiStep(w)
    \/ LeaseStep(ReclaimWorker)

RaceSpec == Init /\ [][RaceNext]_vars

----------------------------------------------------------------------------
\* State machine: exploration saves, classifier data and deletions.

\* The scheduler state these calls leave alone.
schedVars == <<now, pc, loc, lease, questions>>

StoreCall(op, args, raised, error) ==
    [op |-> op, args |-> args, raised |-> raised, error |-> error]

\* The state_names lists of a call: one name, or two names that may be the
\* same.
StateNameLists(names) ==
    { <<a>> : a \in names } \cup { <<a, b>> : a \in names, b \in names }

\* The names of the states that are carried over, and the rename maps over
\* them: every total map, and the empty map that knows no name.
CarriedStateNames == {"Home", "End"}
RenameMaps ==
    [CarriedStateNames -> CarriedStateNames] \cup { [n \in {} |-> "Home"] }

\* The state_names lists passed to handle_trainable_states: lists of
\* trainable states, and lists holding the state without a classifier.
TrainableStateNameLists ==
    StateNameLists(CarriedStateNames) \cup { <<"Intro">>, <<"Home", "Intro">> }

\* The exploration is saved again: its version goes up by one.
NewExplorationVersion(cap) ==
    /\ exp_version < cap
    /\ exp_version' = exp_version + 1
    /\ ret' = StoreCall("new_version", [exp_version |-> exp_version + 1],
                        FALSE, "")
    /\ UNCHANGED <<jobs, mappings, classifiers, log>>
    /\ UNCHANGED schedVars

HandleTrainableStates(cap) ==
    /\ \E state_names \in TrainableStateNameLists :
         /\ Len(jobs) + Len(state_names) <= cap
         /\ \E r \in { handle_trainable_states(
                            jobs, mappings, Exploration(exp_version),
                            state_names, now) } :
                /\ jobs' = r.jobs
                /\ mappings' = r.mappings
                /\ ret' = StoreCall("handle_trainable_states",
                                    [exp_version |-> exp_version,
                                     state_names |-> state_names],
                                    r.raised, r.error)
    /\ UNCHANGED <<classifiers, exp_version, log>>
    /\ UNCHANGED schedVars

HandleNonRetrainableStates ==
    /\ \E state_names \in StateNameLists(CarriedStateNames) :
       \E new_to_old_state_names \in RenameMaps :
         \E r \in { handle_non_retrainable_states(
                         jobs, mappings, Exploration(exp_version),
                         state_names, new_to_old_state_names) } :
             /\ jobs' = r.jobs
             /\ mappings' = r.mappings
             /\ ret' = StoreCall("handle_non_retrainable_states",
                                 [exp_version |-> exp_version,
                                  state_names |-> state_names,
                                  state_names_to_retrieve |->
                                      r.state_names_to_retrieve],
                                 r.raised, r.error)
    /\ UNCHANGED <<classifiers, exp_version, log>>
    /\ UNCHANGED schedVars

DeleteClassifierTrainingJob(cap) ==
    /\ \E job_id \in 1..cap :
         LET r == delete_classifier_training_job(jobs, classifiers, job_id)
         IN  /\ jobs' = r.jobs
             /\ classifiers' = r.classifiers
             /\ ret' = StoreCall("delete_classifier_training_job",
                                 [job_id |-> job_id], r.raised, "")
    /\ UNCHANGED <<mappings, exp_version, log>>
    /\ UNCHANGED schedVars

\* Exploration saves alone.
MapNext ==
    \/ NewExplorationVersion(MaxVersion)
    \/ HandleTrainableStates(MaxMapJobs)
    \/ HandleNonRetrainableStates

MapSpec == Init /\ [][MapNext]_vars

\* Exploration saves, with training jobs being deleted in between.
CarryNext ==
    \/ NewExplorationVersion(MaxCarryVersion)
    \/ HandleTrainableStates(MaxCarryJobs)
    \/ HandleNonRetrainableStates
    \/ DeleteClassifierTrainingJob(MaxCarryJobs)

CarrySpec == Init /\ [][CarryNext]_vars

\* The state_names lists of a lookup: up to three names, one of which never
\* has a mapping.
LookupStateNameLists ==
    LET names == CarriedStateNames \cup {"Intro"}
    IN  StateNameLists(names)
        \cup { <<a, b, c>> : a \in names, b \in names, c \in names }

GetClassifierTrainingJobs ==
    /\ \E exp_ver \in 1..exp_version :
       \E state_names \in LookupStateNameLists :
         \E r \in { get_classifier_training_jobs(
                         jobs, mappings, ExplorationId, exp_ver,
                         state_names) } :
             ret' = [op |-> "get_classifier_training_jobs",
                     args |-> [exp_version |-> exp_ver,
                               state_names |-> state_names],
                     raised |-> r.raised,
                     error |-> IF r.raised THEN "AttributeError" ELSE "",
                     jobs |-> r.jobs]
    /\ UNCHANGED <<jobs, mappings, classifiers, exp_version, log>>
    /\ UNCHANGED schedVars

\* Exploration saves and job deletions, with lookups of the jobs of an
\* exploration version's states in between.
LookupNext ==
    \/ NewExplorationVersion(MaxCarryVersion)
    \/ HandleTrainableStates(MaxCarryJobs)
    \/ HandleNonRetrainableStates
    \/ DeleteClassifierTrainingJob(MaxCarryJobs)
    \/ GetClassifierTrainingJobs

LookupSpec == Init /\ [][LookupNext]_vars

----------------------------------------------------------------------------
\* State machine: training jobs and their classifier data.

AlgorithmIds == {"LDAStringClassifier", "CodeClassifier"}
InteractionIds == {"TextInput", "CodeRepl", "Continue"}
ClassifierPayloads == {"model_a", "model_b"}

\* create_classifier_training_job for any pair of algorithm and interaction.
CreateTrainingJobForPair(cap) ==
    /\ Len(jobs) < cap
    /\ \E algorithm_id \in AlgorithmIds : \E interaction_id \in InteractionIds :
       \E r \in { create_classifier_training_job(
                      jobs, algorithm_id, interaction_id, ExplorationId, 1,
                      "Home", TrainingDataOf("Home"),
                      TRAINING_JOB_STATUS_NEW, now) } :
         /\ jobs' = r.jobs
         /\ ret' = StoreCall("create_classifier_training_job",
                             [algorithm_id |-> algorithm_id,
                              interaction_id |-> interaction_id],
                             r.raised, "")
    /\ UNCHANGED <<mappings, classifiers, exp_version, log>>
    /\ UNCHANGED schedVars

CreateClassifier(cap) ==
    /\ \E job_id \in 1..cap : \E classifier_data \in ClassifierPayloads :
       \E r \in { create_classifier(jobs, classifiers, job_id, classifier_data) } :
         /\ classifiers' = r.classifiers
         /\ ret' = StoreCall("create_classifier",
                             [job_id |-> job_id,
                              classifier_data |-> classifier_data],
                             r.raised, r.error)
    /\ UNCHANGED <<jobs, mappings, exp_version, log>>
    /\ UNCHANGED schedVars

DeleteClassifier(cap) ==
    /\ \E classifier_id \in 1..cap :
       \E r \in { delete_classifier(classifiers, classifier_id) } :
         /\ classifiers' = r.classifiers
         /\ ret' = StoreCall("delete_classifier",
                             [classifier_id |-> classifier_id], r.raised, "")
    /\ UNCHANGED <<jobs, mappings, exp_version, log>>
    /\ UNCHANGED schedVars

GetClassifierById(cap) ==
    /\ \E classifier_id \in 1..cap :
       \E r \in { get_classifier_by_id(classifiers, classifier_id) } :
         ret' = [op |-> "get_classifier_by_id",
                 args |-> [classifier_id |-> classifier_id],
                 raised |-> r.raised, error |-> "",
                 classifier |-> r.classifier]
    /\ UNCHANGED <<jobs, mappings, classifiers, exp_version, log>>
    /\ UNCHANGED schedVars

GetClassifierTrainingJobById(cap) ==
    /\ \E job_id \in 1..cap :
       \E r \in { get_classifier_training_job_by_id(jobs, job_id) } :
         /\ jobs' = r.jobs
         /\ ret' = [op |-> "get_classifier_training_job_by_id",
                    args |-> [job_id |-> job_id],
                    raised |-> r.raised, error |-> "", job |-> r.job]
    /\ UNCHANGED <<mappings, classifiers, exp_version, log>>
    /\ UNCHANGED schedVars

DataNext ==
    \/ CreateTrainingJobForPair(MaxDataJobs)
    \/ CreateClassifier(MaxDataJobs)
    \/ DeleteClassifier(MaxDataJobs)
    \/ DeleteClassifierTrainingJob(MaxDataJobs)
    \/ GetClassifierById(MaxDataJobs)
    \/ GetClassifierTrainingJobById(MaxDataJobs)

DataSpec == Init /\ [][DataNext]_vars

----------------------------------------------------------------------------
\* The validate() calls that succeed and the store writes of each service
\* call, in the order the code makes them.

Validated(id, values) == [kind |-> "validate", id |-> id, values |-> values]
Written(call, id, values) ==
    [kind |-> "write", call |-> call, id |-> id, values |-> values]

\* The id of the i-th record of a batch that is being created.
NewId(i) == <<"new", i>>

create_classifier_training_job_log(js, algorithm_id, interaction_id, exp_id, exp_ver, state_name, training_data, status, t) ==
    LET job == [status |-> status, next_scheduled_check_time |-> t,
                algorithm_id |-> algorithm_id,
                interaction_id |-> interaction_id, exp_id |-> exp_id,
                exp_version |-> exp_ver, state_name |-> state_name,
                training_data |-> training_data]
    IN  IF validate(job)
        THEN <<Validated(NewId(1), job), Written("create", NewId(1), job)>>
        ELSE <<>>

\* The loop of _update_classifier_training_jobs_status: the updated job of
\* each id is validated until a check fails.
RECURSIVE update_status_log(_, _, _, _)
update_status_log(job_ids, models, status, index) ==
    IF index > Len(models) THEN <<>>
    ELSE IF models[index] = None THEN <<>>
    ELSE IF status \notin
              ALLOWED_TRAINING_JOB_STATUS_CHANGES[models[index].status]
         THEN <<>>
    ELSE IF ~validate([models[index] EXCEPT !.status = status])
         THEN <<>>
    ELSE <<Validated(job_ids[index], [models[index] EXCEPT !.status = status])>>
         \o update_status_log(job_ids, models, status, index + 1)

update_classifier_training_jobs_status_log(js, job_ids, status) ==
    LET models == get_multi(js, job_ids)
        r == update_status_loop(models, status, 1)
    IN  update_status_log(job_ids, models, status, 1)
        \o IF r.raised THEN <<>>
           ELSE [ i \in 1..Len(job_ids) |->
                    Written("put_multi", job_ids[i], r.models[i]) ]

\* _update_job_next_scheduled_check_time: get, set the time, put.
update_job_next_scheduled_check_time_log(js, job_id, t) ==
    IF job_id \notin 1..Len(js) THEN <<>>
    ELSE <<Written("put", job_id,
                   [js[job_id] EXCEPT !.next_scheduled_check_time =
                                          t + CLASSIFIER_JOB_TTL_MINS])>>

fetch_next_job_log(js, t) ==
    LET s == scan_loop(js, 0, <<>>, <<>>)
        u == IF Len(s.failed_job_ids) > 0
             THEN mark_training_jobs_failed(js, s.failed_job_ids)
             ELSE [raised |-> FALSE, jobs |-> js]
    IN  (IF Len(s.failed_job_ids) > 0
         THEN update_classifier_training_jobs_status_log(
                  js, s.failed_job_ids, TRAINING_JOB_STATUS_FAILED)
         ELSE <<>>)
        \o (IF ~u.raised /\ Len(s.valid_jobs) > 0
            THEN update_job_next_scheduled_check_time_log(
                     u.jobs, next_valid_job(s.valid_jobs), t)
            ELSE <<>>)

\* The mappings of a batch are validated one by one and written together.
mappings_log(ms, new_mappings) ==
    IF \E i \in 1..Len(new_mappings) : ~validate_mapping(new_mappings[i])
    THEN <<>>
    ELSE [ i \in 1..Len(new_mappings) |->
             Validated(MappingKey(new_mappings[i]), new_mappings[i]) ]
         \o IF create_multi_mappings(ms, new_mappings).raised THEN <<>>
            ELSE [ i \in 1..Len(new_mappings) |->
                     Written("create_multi", MappingKey(new_mappings[i]),
                             new_mappings[i]) ]

handle_trainable_states_log(js, ms, exploration, state_names, t) ==
    IF \E i \in 1..Len(state_names) :
           ~CandidateJobValid(exploration, state_names[i], t)
    THEN <<>>
    ELSE LET N == Len(state_names)
             job == [ i \in 1..N |->
                        [next_scheduled_check_time |-> t]
                        @@ JobDict(exploration, state_names[i]) ]
         IN  [ i \in 1..N |-> Validated(NewId(i), job[i]) ]
             \o [ i \in 1..N |-> Written("create_multi", NewId(i), job[i]) ]
             \o mappings_log(ms,
                    [ i \in 1..N |->
                        [exp_id |-> exploration.id,
                         exp_version |-> exploration.version,
                         state_name |-> state_names[i],
                         job_id |-> Len(js) + i] ])

handle_non_retrainable_states_log(js, ms, exploration, state_names, new_to_old_state_names) ==
    LET r == handle_non_retrainable_states(
                 js, ms, exploration, state_names, new_to_old_state_names)
    IN  IF r.error \in {"version", "KeyError", "AttributeError"} THEN <<>>
        ELSE mappings_log(ms,
                 carried_over_mappings(
                     exploration, state_names,
                     get_classifier_training_jobs(
                         js, ms, exploration.id, exploration.version - 1,
                         r.state_names_to_retrieve).jobs,
                     1))

create_classifier_log(js, cs, job_id, classifier_data) ==
    IF create_classifier(js, cs, job_id, classifier_data).raised THEN <<>>
    ELSE <<Validated(job_id, ClassifierOf(job_id, js[job_id], classifier_data)),
           Written("create", job_id,
                   ClassifierOf(job_id, js[job_id], classifier_data))>>

----------------------------------------------------------------------------
\* State machine: every call that writes to a store, with its log.

auditFrame == <<now, pc, loc, lease, questions>>

AuditedCreateClassifierTrainingJob(cap) ==
    /\ Len(jobs) < cap
    /\ \E r \in { create_classifier_training_job(
                      jobs, "LDAStringClassifier", "TextInput", SchedExpId, 1,
                      SchedStateName, SchedTrainingData,
                      TRAINING_JOB_STATUS_NEW, now) } :
         /\ jobs' = r.jobs
         /\ ret' = Call("create", <<>>, r.raised, r.job)
    /\ log' = create_classifier_training_job_log(
                  jobs, "LDAStringClassifier", "TextInput", SchedExpId, 1,
                  SchedStateName, SchedTrainingData,
                  TRAINING_JOB_STATUS_NEW, now)
    /\ UNCHANGED <<mappings, classifiers, exp_version>>
    /\ UNCHANGED auditFrame

AuditedMarkTrainingJobPending(cap) ==
    /\ \E job_id \in 1..cap :
       \E r \in { mark_training_job_pending(jobs, job_id) } :
         /\ jobs' = r.jobs
         /\ ret' = Call("mark_pending", <<job_id>>, r.raised, NoJob)
         /\ log' = update_classifier_training_jobs_status_log(
                       jobs, <<job_id>>, TRAINING_JOB_STATUS_PENDING)
    /\ UNCHANGED <<mappings, classifiers, exp_version>>
    /\ UNCHANGED auditFrame

AuditedMarkTrainingJobComplete(cap) ==
    /\ \E job_id \in 1..cap :
       \E r \in { mark_training_job_complete(jobs, job_id) } :
         /\ jobs' = r.jobs
         /\ ret' = Call("mark_complete", <<job_id>>, r.raised, NoJob)
         /\ log' = update_classifier_training_jobs_status_log(
                       jobs, <<job_id>>, TRAINING_JOB_STATUS_COMPLETE)
    /\ UNCHANGED <<mappings, classifiers, exp_version>>
    /\ UNCHANGED auditFrame

AuditedMarkTrainingJobsFailed(cap) ==
    /\ \E job_ids \in DistinctBatches(cap) :
       \E r \in { mark_training_jobs_failed(jobs, job_ids) } :
         /\ jobs' = r.jobs
         /\ ret' = Call("mark_failed", job_ids, r.raised, NoJob)
         /\ log' = update_classifier_training_jobs_status_log(
                       jobs, job_ids, TRAINING_JOB_STATUS_FAILED)
    /\ UNCHANGED <<mappings, classifiers, exp_version>>
    /\ UNCHANGED auditFrame

AuditedFetchNextJob ==
    /\ \E r \in { fetch_next_job(jobs, now) } :
         /\ jobs' = r.jobs
         /\ ret' = Call("fetch", r.failed, r.raised, r.job)
    /\ log' = fetch_next_job_log(jobs, now)
    /\ UNCHANGED <<mappings, classifiers, exp_version>>
    /\ UNCHANGED auditFrame

AuditedHandleTrainableStates(cap) ==
    /\ \E state_names \in TrainableStateNameLists :
         /\ Len(jobs) + Len(state_names) <= cap
         /\ \E r \in { handle_trainable_states(
                           jobs, mappings, Exploration(exp_version),
                           state_names, now) } :
              /\ jobs' = r.jobs
              /\ mappings' = r.mappings
              /\ ret' = StoreCall("handle_trainable_states",
                                  [exp_version |-> exp_version,
                                   state_names |-> state_names],
                                  r.raised, r.error)
         /\ log' = handle_trainable_states_log(
                       jobs, mappings, Exploration(exp_version),
                       state_names, now)
    /\ UNCHANGED <<classifiers, exp_version>>
    /\ UNCHANGED auditFrame

AuditedHandleNonRetrainableStates ==
    /\ \E state_names \in StateNameLists(CarriedStateNames) :
       \E new_to_old_state_names \in RenameMaps :
         /\ \E r \in { handle_non_retrainable_states(
                           jobs, mappings, Exploration(exp_version),
                           state_names, new_to_old_state_names) } :
              /\ jobs' = r.jobs
              /\ mappings' = r.mappings
              /\ ret' = StoreCall("handle_non_retrainable_states",
                                  [exp_version |-> exp_version,
                                   state_names |-> state_names,
                                   state_names_to_retrieve |->
                                       r.state_names_to_retrieve],
                                  r.raised, r.error)
         /\ log' = handle_non_retrainable_states_log(
                       jobs, mappings, Exploration(exp_version),
                       state_names, new_to_old_state_names)
    /\ UNCHANGED <<classifiers, exp_version>>
    /\ UNCHANGED auditFrame

AuditedCreateClassifier(cap) ==
    /\ \E job_id \in 1..cap : \E classifier_data \in ClassifierPayloads :
       \E r \in { create_classifier(jobs, classifiers, job_id, classifier_data) } :
         /\ classifiers' = r.classifiers
         /\ ret' = StoreCall("create_classifier",
                             [job_id |-> job_id,
                              classifier_data |-> classifier_data],
                             r.raised, r.error)
         /\ log' = create_classifier_log(
                       jobs, classifiers, job_id, classifier_data)
    /\ UNCHANGED <<jobs, mappings, exp_version>>
    /\ UNCHANGED auditFrame

AuditNext ==
    \/ NewExplorationVersion(MaxAuditVersion)
    \/ AuditedCreateClassifierTrainingJob(MaxAuditJobs)
    \/ AuditedMarkTrainingJobPending(MaxAuditJobs)
    \/ AuditedMarkTrainingJobComplete(MaxAuditJobs)
    \/ AuditedMarkTrainingJobsFailed(MaxAuditJobs)
    \/ AuditedFetchNextJob
    \/ AuditedHandleTrainableStates(MaxAuditJobs)
    \/ AuditedHandleNonRetrainableStates
    \/ AuditedCreateClassifier(MaxAuditJobs)

AuditSpec == Init /\ [][AuditNext]_vars

----------------------------------------------------------------------------
\* Answer classification.

DEFAULT_CLASSIFIER_LABEL == "_default"
RULE_TYPE_CLASSIFIER == "FuzzyMatches"

\* Python's None where an index is expected.
NoIndex == -1
\* Python's None where classify_string_classifier_rule returns no dict.
NoResponse == [matched |-> FALSE]

\* str() and int() of an answer group index.
Digits == <<"0", "1", "2", "3", "4", "5", "6", "7", "8", "9">>
str(i) == Digits[i + 1]
int(label) == CHOOSE i \in 0..9 : Digits[i + 1] = label

\* interaction_registry.Registry.get_interaction_by_id(id)
\* .is_string_classifier_trainable
is_string_classifier_trainable(interaction_id) ==
    interaction_id \in {"TextInput", "CodeRepl"}

\* interaction_instance.normalize_answer(answer): surrounding blanks are
\* dropped.
normalize_answer(interaction_id, answer) ==
    CASE answer = " hi " -> "hi"
      [] answer = "hi" -> "hi"
      [] OTHER -> answer

\* Outcome.to_dict()
to_dict(outcome) == [dest |-> outcome.dest]

\* AnswerGroup.get_classifier_rule_index(): the index of the first rule spec
\* of the classifier rule type, None when the group has none.
get_classifier_rule_index(answer_group) ==
    LET found == { i \in 1..Len(answer_group.rule_specs) :
                     answer_group.rule_specs[i].rule_type
                         = RULE_TYPE_CLASSIFIER }
    IN IF found = {} THEN NoIndex
       ELSE (CHOOSE i \in found : \A j \in found : i <= j) - 1

\* The training examples that the loop over the answer groups appends, from
\* the group at answer_group_index on.
RECURSIVE group_training_examples(_, _)
group_training_examples(answer_groups, answer_group_index) ==
    IF answer_group_index >= Len(answer_groups) THEN <<>>
    ELSE LET answer_group == answer_groups[answer_group_index + 1]
             classifier_rule_spec_index ==
                 get_classifier_rule_index(answer_group)
             training_data ==
                 answer_group.rule_specs[classifier_rule_spec_index + 1]
                     .training_data
             own == IF classifier_rule_spec_index # NoIndex
                    THEN [k \in 1..Len(training_data) |->
                            [doc |-> training_data[k],
                             labels |-> <<str(answer_group_index)>>]]
                    ELSE <<>>
         IN own \o group_training_examples(answer_groups,
                                           answer_group_index + 1)

\* Mutant: the confirmed unclassified answers are left out.
training_examples_of_labelled_only(state) ==
    group_training_examples(state.answer_groups, 0)

training_examples_of(state) ==
    [k \in 1..Len(state.confirmed_unclassified_answers) |->
        [doc |-> state.confirmed_unclassified_answers[k], labels |-> <<>>]]
    \o group_training_examples(state.answer_groups, 0)

\* The labels sc.predict can return after sc.train(training_examples): a
\* label of an example, or the default label.
predict(training_examples) ==
    {DEFAULT_CLASSIFIER_LABEL}
    \cup { training_examples[k].labels[1] :
             k \in { j \in 1..Len(training_examples) :
                       Len(training_examples[j].labels) > 0 } }

\* The value the loop over the answer groups leaves in
\* classifier_rule_spec_index: the one of the last answer group.
leftover_classifier_rule_spec_index(answer_groups) ==
    get_classifier_rule_index(answer_groups[Len(answer_groups)])

has_classifier_rule(answer_group) ==
    \E i \in 1..Len(answer_group.rule_specs) :
        answer_group.rule_specs[i].rule_type = RULE_TYPE_CLASSIFIER

\* classify_string_classifier_rule(state, normalized_answer), where
\* predicted_label is what sc.predict returns. trace lists the calls made on
\* the classifier and trained_on the training sets passed to sc.train.
classify_string_classifier_rule(state, normalized_answer, predicted_label) ==
    LET answer_groups == state.answer_groups
        training_examples == training_examples_of(state)
        predicted_answer_group_index == int(predicted_label)
        predicted_answer_group ==
            answer_groups[predicted_answer_group_index + 1]
        best_matched_rule_spec_index ==
            IF has_classifier_rule(predicted_answer_group)
            THEN leftover_classifier_rule_spec_index(answer_groups)
            ELSE NoIndex
    IN IF state.interaction_id \notin DOMAIN INTERACTION_CLASSIFIER_MAPPING
       THEN [raised |-> TRUE, error |-> "KeyError",
             response |-> NoResponse, trace |-> <<>>, trained_on |-> <<>>]
       ELSE IF Len(training_examples) = 0
       THEN [raised |-> FALSE, error |-> "",
             response |-> NoResponse, trace |-> <<>>, trained_on |-> <<>>]
       ELSE IF predicted_label = DEFAULT_CLASSIFIER_LABEL
       THEN [raised |-> FALSE, error |-> "",
             response |-> NoResponse, trace |-> <<"train", "predict">>,
             trained_on |-> <<training_examples>>]
       ELSE [raised |-> FALSE, error |-> "",
             response |->
                 [matched |-> TRUE,
                  outcome |-> to_dict(predicted_answer_group.outcome),
                  answer_group_index |-> predicted_answer_group_index,
                  rule_spec_index |-> best_matched_rule_spec_index],
             trace |-> <<"train", "predict">>,
             trained_on |-> <<training_examples>>]

\* The dict classify returns when the default outcome is matched.
default_response_first_group(state) ==
    [matched |-> TRUE,
     outcome |-> to_dict(state.default_outcome),
     answer_group_index |-> 0,
     classification_certainty |-> 0,
     rule_spec_index |-> 0]

default_response(state) ==
    [matched |-> TRUE,
     outcome |-> to_dict(state.default_outcome),
     answer_group_index |-> Len(state.answer_groups),
     classification_certainty |-> 0,
     rule_spec_index |-> 0]

ClassifyResult(raised, error, response, trace) ==
    [raised |-> raised, error |-> error, response |-> response,
     trace |-> trace]

classify_enabled_falls_back(state, answer, predicted_label) ==
    LET normalized_answer == normalize_answer(state.interaction_id, answer)
        r == classify_string_classifier_rule(state, normalized_answer,
                                             predicted_label)
        trace == <<"normalize_answer">> \o r.trace
    IN IF r.raised
       THEN ClassifyResult(TRUE, r.error, NoResponse, trace)
       ELSE IF r.response # NoResponse
       THEN ClassifyResult(FALSE, "", r.response, trace)
       ELSE IF state.default_outcome # None
       THEN ClassifyResult(FALSE, "", default_response(state), trace)
       ELSE ClassifyResult(TRUE, "Something has seriously gone wrong",
                           NoResponse, trace)

classify_enabled_returns_none(state, answer, predicted_label) ==
    LET normalized_answer == normalize_answer(state.interaction_id, answer)
        r == classify_string_classifier_rule(state, normalized_answer,
                                             predicted_label)
        trace == <<"normalize_answer">> \o r.trace
    IN IF ~is_string_classifier_trainable(state.interaction_id)
       THEN ClassifyResult(TRUE, "No classifier found for interaction.",
                           NoResponse, <<"normalize_answer">>)
       ELSE IF r.raised
       THEN ClassifyResult(TRUE, r.error, NoResponse, trace)
       ELSE IF r.response # NoResponse
       THEN ClassifyResult(FALSE, "", r.response, trace)
       ELSE IF state.default_outcome # None
       THEN ClassifyResult(FALSE, "", default_response(state), trace)
       ELSE ClassifyResult(FALSE, "", NoResponse, trace)

\* What classify does once the assertion has passed.
classify_enabled(state, answer, predicted_label) ==
    LET normalized_answer == normalize_answer(state.interaction_id, answer)
        r == classify_string_classifier_rule(state, normalized_answer,
                                             predicted_label)
        trace == <<"normalize_answer">> \o r.trace
    IN IF ~is_string_classifier_trainable(state.interaction_id)
       THEN ClassifyResult(TRUE, "No classifier found for interaction.",
                           NoResponse, <<"normalize_answer">>)
       ELSE IF r.raised
       THEN ClassifyResult(TRUE, r.error, NoResponse, trace)
       ELSE IF r.response # NoResponse
       THEN ClassifyResult(FALSE, "", r.response, trace)
       ELSE IF state.default_outcome # None
       THEN ClassifyResult(FALSE, "", default_response(state), trace)
       ELSE ClassifyResult(TRUE, "Something has seriously gone wrong",
                           NoResponse, trace)

classify_unasserted(enabled, state, answer, predicted_label) ==
    classify_enabled(state, answer, predicted_label)

\* classify(state, answer) where feconf.ENABLE_ML_CLASSIFIERS is enabled.
classify(enabled, state, answer, predicted_label) ==
    IF ~enabled
    THEN ClassifyResult(TRUE, "AssertionError", NoResponse, <<>>)
    ELSE classify_enabled(state, answer, predicted_label)

----------------------------------------------------------------------------
\* State machine: answers classified against states.

Answers == {" hi ", "hi"}

ClassifierRule(training_data) ==
    [rule_type |-> RULE_TYPE_CLASSIFIER, training_data |-> training_data]
EqualsRule == [rule_type |-> "Equals", training_data |-> <<>>]

\* The rule specs of an answer group.
RuleSpecLists ==
    { <<EqualsRule>>,
      <<ClassifierRule(<<"hello">>)>>,
      <<EqualsRule, ClassifierRule(<<"hello">>)>>,
      <<ClassifierRule(<<>>)>> }

Outcome(dest) == [type |-> "Outcome", dest |-> dest]

\* Answer group lists of the given length; the outcome of each group names
\* its position.
AnswerGroupLists(n) ==
    { [i \in 1..n |-> [rule_specs |-> shapes[i],
                       outcome |-> Outcome(Digits[i])]] :
        shapes \in [1..n -> RuleSpecLists] }

ClassifiedStates(cap) ==
    UNION { [interaction_id : InteractionIds,
             answer_groups : AnswerGroupLists(n),
             confirmed_unclassified_answers : {<<>>, <<"bye">>},
             default_outcome : {None, Outcome("default")}] : n \in 0..cap }

\* A state and an answer have been chosen and classify has not been called.
ClassifyInit ==
    /\ jobs = <<>>
    /\ now = 0
    /\ pc = [w \in Workers |-> "idle"]
    /\ loc = [w \in Workers |-> InitLoc]
    /\ lease = [w \in Workers |-> NoLease]
    /\ mappings = {}
    /\ classifiers = {}
    /\ exp_version = 1
    /\ log = <<>>
    /\ questions = <<>>
    /\ \E enabled \in BOOLEAN : \E state \in ClassifiedStates(MaxAnswerGroups) :
       \E answer \in Answers :
         ret = [op |-> "answer_submitted",
                args |-> [enabled |-> enabled, state |-> state,
                          answer |-> answer]]

Classify ==
    /\ ret.op = "answer_submitted"
    /\ \E predicted_label \in predict(training_examples_of(ret.args.state)) :
       \E r \in { classify(ret.args.enabled, ret.args.state, ret.args.answer,
                            predicted_label) } :
         ret' = [op |-> "classify", args |-> ret.args,
                 predicted_label |-> predicted_label,
                 raised |-> r.raised, error |-> r.error,
                 response |-> r.response, trace |-> r.trace]
    /\ UNCHANGED <<jobs, mappings, classifiers, exp_version, log>>
    /\ UNCHANGED schedVars

\* The call classify makes for a trainable interaction (line 63), as a step
\* of its own.
ClassifyStringClassifierRule ==
    /\ ret.op = "answer_submitted"
    /\ ret.args.enabled
    /\ is_string_classifier_trainable(ret.args.state.interaction_id)
    /\ \E predicted_label \in predict(training_examples_of(ret.args.state)) :
       \E r \in { classify_string_classifier_rule(
                      ret.args.state,
                      normalize_answer(ret.args.state.interaction_id,
                                       ret.args.answer),
                      predicted_label) } :
         ret' = [op |-> "classify_string_classifier_rule", args |-> ret.args,
                 predicted_label |-> predicted_label,
                 raised |-> r.raised, error |-> r.error,
                 response |-> r.response, trace |-> r.trace,
                 trained_on |-> r.trained_on]
    /\ UNCHANGED <<jobs, mappings, classifiers, exp_version, log>>
    /\ UNCHANGED schedVars

ClassifyNext == Classify \/ ClassifyStringClassifierRule

ClassifySpec == ClassifyInit /\ [][ClassifyNext]_vars

----------------------------------------------------------------------------
\* Questions (question_services).

\* No id: the call raised before it returned one.
NoQuestion == 0

CMD_EDIT_QUESTION_PROPERTY == "update_question_property"
QUESTION_PROPERTY_TITLE == "title"
QUESTION_PROPERTY_LANGUAGE_CODE == "language_code"
QUESTION_PROPERTY_QUESTION_DATA == "question_data"

\* question_domain.Question(question_id, title, question_data,
\* question_data_schema_version, collection_id, language_code)
Question(question_id, title, question_data, question_data_schema_version, collection_id, language_code) ==
    [question_id |-> question_id, title |-> title,
     question_data |-> question_data,
     question_data_schema_version |-> question_data_schema_version,
     collection_id |-> collection_id, language_code |-> language_code]

\* The instance QuestionModel.create(title=..., ...) builds.
QuestionModel(question) ==
    [title |-> question.title, question_data |-> question.question_data,
     question_data_schema_version |-> question.question_data_schema_version,
     collection_id |-> question.collection_id,
     language_code |-> question.language_code, deleted |-> FALSE]

\* QuestionModel.get(question_id) finds a model: the id was stored and the
\* model is neither removed nor marked as deleted.
QuestionStored(qs, question_id) ==
    /\ question_id \in 1..Len(qs)
    /\ qs[question_id] # None
    /\ ~qs[question_id].deleted

\* get_question_from_model(question_model)
get_question_from_model(question_id, question_model) ==
    Question(question_id, question_model.title, question_model.question_data,
             question_model.question_data_schema_version,
             question_model.collection_id, question_model.language_code)

\* get_question_by_id(question_id): QuestionModel.get is strict and raises
\* 'Entity for class QuestionModel with id ... not found'.
get_question_by_id(qs, question_id) ==
    IF ~QuestionStored(qs, question_id)
    THEN [raised |-> TRUE, error |-> "not found", question |-> None]
    ELSE [raised |-> FALSE, error |-> "",
          question |-> get_question_from_model(question_id, qs[question_id])]

\* add_question(committer_id, question): _create_question builds the model
\* with QuestionModel.create and then evaluates the commit_cmds of
\* model.commit, where the name CMD_CREATE_NEW is not defined: NameError,
\* before commit is called. Whether create itself puts the model is decided
\* outside this module: create_puts.
add_question(qs, committer_id, question, create_puts) ==
    [raised |-> TRUE, error |-> "NameError",
     questions |-> IF create_puts THEN Append(qs, QuestionModel(question))
                   ELSE qs,
     question_id |-> NoQuestion]

\* delete_question(committer_id, question_id, force_deletion): with
\* force_deletion the model is removed, otherwise marked as deleted.
delete_question(qs, committer_id, question_id, force_deletion) ==
    IF ~QuestionStored(qs, question_id)
    THEN [raised |-> TRUE, error |-> "not found", questions |-> qs]
    ELSE [raised |-> FALSE, error |-> "",
          questions |->
              IF force_deletion THEN [qs EXCEPT ![question_id] = None]
              ELSE [qs EXCEPT ![question_id].deleted = TRUE]]

\* The loop over the changes of apply_change_list, from the change at
\* index on. The test that guards update_question_data compares change.cmd,
\* not change.property_name.
RECURSIVE apply_changes(_, _, _)
apply_changes(question, changes, index) ==
    IF index > Len(changes) THEN question
    ELSE LET change == changes[index]
             changed ==
                 IF change.cmd = CMD_EDIT_QUESTION_PROPERTY
                 THEN IF change.property_name = QUESTION_PROPERTY_TITLE
                      THEN [question EXCEPT !.title = change.new_value]
                      ELSE IF change.property_name =
                                  QUESTION_PROPERTY_LANGUAGE_CODE
                      THEN [question EXCEPT
                                !.language_code = change.new_value]
                      ELSE IF change.cmd = QUESTION_PROPERTY_QUESTION_DATA
                      THEN [question EXCEPT
                                !.question_data = change.new_value]
                      ELSE question
                 ELSE question
         IN  apply_changes(changed, changes, index + 1)

\* apply_change_list(question_id, change_list): the question is read
\* outside the try block, so a missing question raises what the read raises.
apply_change_list(qs, question_id, change_list) ==
    LET got == get_question_by_id(qs, question_id)
    IN  IF got.raised THEN got
        ELSE [raised |-> FALSE, error |-> "",
              question |-> apply_changes(got.question, change_list, 1)]

\* update_question(committer_id, question_id, change_list, commit_message):
\* apply_change_list(question_id, change_list) is called with change_list
\* alone: TypeError, before the question is read or saved.
update_question(qs, committer_id, question_id, change_list, commit_message) ==
    [raised |-> TRUE, error |-> "TypeError", questions |-> qs]

----------------------------------------------------------------------------
\* State machine: questions added, read, updated and deleted.

\* The state of the classifier services, which these calls leave alone.
classifierVars ==
    <<jobs, now, pc, loc, lease, mappings, classifiers, exp_version, log>>

QuestionTitles == {"A Question", "Another"}

NewQuestion(title) == Question(NoQuestion, title, <<>>, 1, "col1", "en")

TitleChange(new_value) ==
    [cmd |-> CMD_EDIT_QUESTION_PROPERTY,
     property_name |-> QUESTION_PROPERTY_TITLE, new_value |-> new_value]

LanguageChange(new_value) ==
    [cmd |-> CMD_EDIT_QUESTION_PROPERTY,
     property_name |-> QUESTION_PROPERTY_LANGUAGE_CODE,
     new_value |-> new_value]

QuestionChangeLists == { <<>>, <<TitleChange("ABC")>>, <<LanguageChange("hi")>> }

QuestionDataChange(new_value) ==
    [cmd |-> CMD_EDIT_QUESTION_PROPERTY,
     property_name |-> QUESTION_PROPERTY_QUESTION_DATA,
     new_value |-> new_value]

\* The change lists applied to a fetched question: none, one or two changes.
AppliedChangeLists ==
    LET changes == { TitleChange("ABC"), TitleChange("XYZ"),
                     LanguageChange("hi"), QuestionDataChange(<<"TextInput">>) }
    IN  {<<>>} \cup { <<a>> : a \in changes }
               \cup { <<a, b>> : a \in changes, b \in changes }

AddQuestion(cap) ==
    /\ Len(questions) < cap
    /\ \E title \in QuestionTitles : \E create_puts \in BOOLEAN :
       \E r \in { add_question(questions, "owner", NewQuestion(title),
                                create_puts) } :
         /\ questions' = r.questions
         /\ ret' = [op |-> "add_question", args |-> [title |-> title],
                    raised |-> r.raised, error |-> r.error,
                    question_id |-> r.question_id]
    /\ UNCHANGED classifierVars

DeleteQuestion(cap) ==
    /\ \E question_id \in 1..cap : \E force_deletion \in BOOLEAN :
       \E r \in { delete_question(questions, "owner", question_id,
                                   force_deletion) } :
         /\ questions' = r.questions
         /\ ret' = [op |-> "delete_question",
                    args |-> [question_id |-> question_id,
                              force_deletion |-> force_deletion],
                    raised |-> r.raised, error |-> r.error]
    /\ UNCHANGED classifierVars

GetQuestionById(cap) ==
    /\ \E question_id \in 1..cap :
       \E r \in { get_question_by_id(questions, question_id) } :
         ret' = [op |-> "get_question_by_id",
                 args |-> [question_id |-> question_id],
                 raised |-> r.raised, error |-> r.error,
                 question |-> r.question]
    /\ UNCHANGED questions
    /\ UNCHANGED classifierVars

UpdateQuestion(cap) ==
    /\ \E question_id \in 1..cap : \E change_list \in QuestionChangeLists :
       \E r \in { update_question(questions, "owner", question_id,
                                   change_list, "update") } :
         /\ questions' = r.questions
         /\ ret' = [op |-> "update_question",
                    args |-> [question_id |-> question_id,
                              change_list |-> change_list],
                    raised |-> r.raised, error |-> r.error]
    /\ UNCHANGED classifierVars

ApplyChangeList(cap) ==
    /\ \E question_id \in 1..cap : \E change_list \in AppliedChangeLists :
       \E r \in { apply_change_list(questions, question_id, change_list) } :
         ret' = [op |-> "apply_change_list",
                 args |-> [question_id |-> question_id,
                           change_list |-> change_list],
                 raised |-> r.raised, error |-> r.error,
                 question |-> r.question]
    /\ UNCHANGED questions
    /\ UNCHANGED classifierVars

QuestionNext ==
    \/ ApplyChangeList(MaxQuestions)
    \/ AddQuestion(MaxQuestions)
    \/ DeleteQuestion(MaxQuestions)
    \/ GetQuestionById(MaxQuestions)
    \/ UpdateQuestion(MaxQuestions)

QuestionSpec == Init /\ [][QuestionNext]_vars

----------------------------------------------------------------------------
\* Properties.

UpdateOps == {"mark_pending", "mark_complete", "mark_failed"}

\* The status a status-update call asks for.
RequestedStatus(op) ==
    CASE op = "mark_pending" -> TRAINING_JOB_STATUS_PENDING
      [] op = "mark_complete" -> TRAINING_JOB_STATUS_COMPLETE
      [] op = "mark_failed" -> TRAINING_JOB_STATUS_FAILED

StoredIds == 1..Len(jobs)

\* C1: every change of a stored job's status from A to B has B in
\* ALLOWED_TRAINING_JOB_STATUS_CHANGES[A], whichever call made it; a call
\* asking for a change outside that set raises and leaves that job's status.
StatusChangesAllowed ==
    [][ /\ Len(jobs') >= Len(jobs)
        /\ \A j \in StoredIds :
             jobs'[j].status # jobs[j].status =>
               jobs'[j].status \in
                   ALLOWED_TRAINING_JOB_STATUS_CHANGES[jobs[j].status]
        /\ ret'.op \in UpdateOps =>
             \A i \in 1..Len(ret'.ids) :
                ( /\ ret'.ids[i] \in StoredIds
                  /\ RequestedStatus(ret'.op) \notin
                       ALLOWED_TRAINING_JOB_STATUS_CHANGES[
                           jobs[ret'.ids[i]].status] )
                => /\ ret'.raised
                   /\ jobs'[ret'.ids[i]].status = jobs[ret'.ids[i]].status
      ]_vars

\* C1 witness: mark_training_job_complete has moved a job to COMPLETE.
C1Witness ==
    /\ ret.op = "mark_complete"
    /\ ~ret.raised
    /\ jobs[ret.ids[1]].status = TRAINING_JOB_STATUS_COMPLETE

\* C2: a status update over a list of job ids in which some id is missing
\* from the store, or some job's status does not allow the requested one,
\* raises and stores nothing: every job is as it was, the ones earlier in
\* the list with a legal change included.
BatchUpdateFailFast ==
    [][ ( /\ ret'.op \in UpdateOps
          /\ \E i \in 1..Len(ret'.ids) :
                \/ ret'.ids[i] \notin StoredIds
                \/ RequestedStatus(ret'.op) \notin
                     ALLOWED_TRAINING_JOB_STATUS_CHANGES[
                         jobs[ret'.ids[i]].status] )
        => /\ ret'.raised
           /\ jobs' = jobs
      ]_vars

\* C2 witness: mark_training_jobs_failed over two ids has raised on the
\* second (missing, or not PENDING) while the first is a PENDING job, whose
\* change to FAILED would have been legal and was not stored.
C2Witness ==
    /\ ret.op = "mark_failed"
    /\ ret.raised
    /\ Len(ret.ids) = 2
    /\ ret.ids[1] \in StoredIds
    /\ jobs[ret.ids[1]].status = TRAINING_JOB_STATUS_PENDING
    /\ \/ ret.ids[2] \notin StoredIds
       \/ jobs[ret.ids[2]].status # TRAINING_JOB_STATUS_PENDING

\* C3 as stated: a job whose stored status is COMPLETE or FAILED keeps that
\* status in every later step.
TerminalStatusesImmutable ==
    [][ \A j \in StoredIds :
          jobs[j].status \in { TRAINING_JOB_STATUS_COMPLETE,
                               TRAINING_JOB_STATUS_FAILED }
          => jobs'[j].status = jobs[j].status
      ]_vars

\* C3 amended: a COMPLETE job keeps its status in every later step; a FAILED
\* job's status changes only to PENDING, and only by
\* mark_training_job_pending on that job (the retry edge).
CompleteImmutableFailedOnlyRetried ==
    [][ \A j \in StoredIds :
          /\ jobs[j].status = TRAINING_JOB_STATUS_COMPLETE
               => jobs'[j].status = TRAINING_JOB_STATUS_COMPLETE
          /\ ( /\ jobs[j].status = TRAINING_JOB_STATUS_FAILED
               /\ jobs'[j].status # TRAINING_JOB_STATUS_FAILED )
               => /\ jobs'[j].status = TRAINING_JOB_STATUS_PENDING
                  /\ ret'.op = "mark_pending"
                  /\ ret'.ids = <<j>>
      ]_vars

\* C3 witness: mark_training_job_pending was refused on a COMPLETE job,
\* which is still COMPLETE.
C3Witness ==
    /\ ret.op = "mark_pending"
    /\ ret.raised
    /\ ret.ids[1] \in StoredIds
    /\ jobs[ret.ids[1]].status = TRAINING_JOB_STATUS_COMPLETE

\* A job the scan treats as runnable: any job that is not PENDING.
Runnable(job) == job.status # TRAINING_JOB_STATUS_PENDING

\* The first runnable job of a store in storage order, NoJob if none.
FirstRunnable(js) ==
    IF \E j \in 1..Len(js) : Runnable(js[j])
    THEN CHOOSE j \in 1..Len(js) :
            /\ Runnable(js[j])
            /\ \A k \in 1..(j - 1) : ~Runnable(js[k])
    ELSE NoJob

\* The last job of the pages a call scans: the end of the first page that
\* holds a runnable job, the end of the store if no page does.
LastScanned(js) ==
    IF FirstRunnable(js) = NoJob THEN Len(js)
    ELSE Min(Len(js),
             QUERY_PAGE_SIZE *
                 (((FirstRunnable(js) - 1) \div QUERY_PAGE_SIZE) + 1))

\* C4: fetch_next_job does not raise and returns the first runnable (not
\* PENDING) job of the store in storage order, and None exactly when the
\* store holds no runnable job.
FetchReturnsFirstRunnable ==
    [][ ret'.op = "fetch" =>
          /\ ~ret'.raised
          /\ ret'.job = FirstRunnable(jobs)
      ]_vars

\* C4 witness: fetch_next_job returned a job of the second page, every job
\* before it having been PENDING (they are the ids it bulk-failed).
C4Witness ==
    /\ ret.op = "fetch"
    /\ ret.job > QUERY_PAGE_SIZE
    /\ Len(ret.ids) = ret.job - 1

\* C5 as stated: fetch_next_job never returns a COMPLETE job; on a store of
\* only COMPLETE and PENDING jobs it fails the PENDING ones and returns
\* None; on a store with a NEW job it returns a NEW job.
FetchSkipsCompleteJobs ==
    [][ ret'.op = "fetch" =>
          /\ ret'.job # NoJob =>
               jobs[ret'.job].status # TRAINING_JOB_STATUS_COMPLETE
          /\ ( \A j \in StoredIds :
                  jobs[j].status \in { TRAINING_JOB_STATUS_COMPLETE,
                                       TRAINING_JOB_STATUS_PENDING } )
             => ret'.job = NoJob
      ]_vars

\* Whether a job's lease has run out at time t.
Stale(job, t) == t > job.next_scheduled_check_time

\* C6 as stated: after fetch_next_job every job that was PENDING with an
\* expired lease is FAILED, wherever it sits in the store.
FetchReclaimsEveryStalePending ==
    [][ ret'.op = "fetch" =>
          \A j \in StoredIds :
             ( /\ jobs[j].status = TRAINING_JOB_STATUS_PENDING
               /\ Stale(jobs[j], now) )
             => jobs'[j].status = TRAINING_JOB_STATUS_FAILED
      ]_vars

\* C6 amended: after fetch_next_job every job that was PENDING with an
\* expired lease and lies on a page the call scanned (a page up to and
\* including the first one holding a job that is not PENDING) is FAILED.
FetchReclaimsScannedStalePending ==
    [][ ret'.op = "fetch" =>
          \A j \in 1..LastScanned(jobs) :
             ( /\ jobs[j].status = TRAINING_JOB_STATUS_PENDING
               /\ Stale(jobs[j], now) )
             => jobs'[j].status = TRAINING_JOB_STATUS_FAILED
      ]_vars

\* C6 witness: fetch_next_job has bulk-failed a job of the second page whose
\* lease had run out.
C6Witness ==
    /\ ret.op = "fetch"
    /\ ~ret.raised
    /\ \E i \in 1..Len(ret.ids) :
          /\ ret.ids[i] > QUERY_PAGE_SIZE
          /\ jobs[ret.ids[i]].status = TRAINING_JOB_STATUS_FAILED
          /\ Stale(jobs[ret.ids[i]], now)

\* C7 as stated: fetch_next_job leaves PENDING every PENDING job whose lease
\* has not run out.
FetchFailsOnlyStalePending ==
    [][ ret'.op = "fetch" =>
          \A j \in StoredIds :
             ( /\ jobs[j].status = TRAINING_JOB_STATUS_PENDING
               /\ ~Stale(jobs[j], now) )
             => jobs'[j].status = TRAINING_JOB_STATUS_PENDING
      ]_vars

\* C8: when fetch_next_job returns a job, the stored
\* next_scheduled_check_time of that job is the time of the call plus
\* CLASSIFIER_JOB_TTL_MINS; when it returns None no job's
\* next_scheduled_check_time changes.
FetchLeaseIsNowPlusTTL ==
    [][ ret'.op = "fetch" =>
          /\ ret'.job # NoJob =>
               jobs'[ret'.job].next_scheduled_check_time =
                   now + CLASSIFIER_JOB_TTL_MINS
          /\ ret'.job = NoJob =>
               \A j \in StoredIds :
                  jobs'[j].next_scheduled_check_time =
                      jobs[j].next_scheduled_check_time
      ]_vars

\* C8 witness: fetch_next_job, called after the clock has advanced, returned
\* a job whose stored lease is now + TTL.
C8Witness ==
    /\ ret.op = "fetch"
    /\ ret.job # NoJob
    /\ now > 0
    /\ jobs[ret.job].next_scheduled_check_time = now + CLASSIFIER_JOB_TTL_MINS

\* C9 as stated: two workers never hold leases of the same job whose
\* periods [at, until] overlap.
NoDoubleLease ==
    \A w1, w2 \in Workers :
       ( /\ w1 # w2
         /\ lease[w1].job # NoJob
         /\ lease[w1].job = lease[w2].job )
       => \/ lease[w1].until < lease[w2].at
          \/ lease[w2].until < lease[w1].at

\* C10: a fetch_next_job call that has entered its scan loop returns (or
\* raises): the loop ends on every store.
FetchNextJobTerminates ==
    (pc[LoopWorker] = "scan") ~> (pc[LoopWorker] = "idle")

\* C10 witness: a call has returned None after scanning more than one page
\* of PENDING jobs, all of which it bulk-failed.
C10Witness ==
    /\ pc[LoopWorker] = "idle"
    /\ ret.op = "fetch"
    /\ ~ret.raised
    /\ ret.job = NoJob
    /\ Len(ret.ids) > QUERY_PAGE_SIZE
    /\ Len(ret.ids) = Len(jobs)


----------------------------------------------------------------------------
\* Properties of exploration saves.

\* A step of handle_trainable_states whose state names are all valid.
TrainableCall ==
    /\ ret'.op = "handle_trainable_states"
    /\ \A i \in 1..Len(ret'.args.state_names) :
          CandidateJobValid(Exploration(ret'.args.exp_version),
                            ret'.args.state_names[i], now)

\* The N jobs and N mappings of such a step: job i is appended with status
\* NEW, and mapping i joins the exploration's id and version and state
\* name i to job i.
CreatesJobsAndMappings ==
    LET state_names == ret'.args.state_names
        N == Len(state_names)
        created == { [exp_id |-> ExplorationId,
                      exp_version |-> ret'.args.exp_version,
                      state_name |-> state_names[i],
                      job_id |-> Len(jobs) + i] : i \in 1..N }
    IN  /\ Len(jobs') = Len(jobs) + N
        /\ SubSeq(jobs', 1, Len(jobs)) = jobs
        /\ \A i \in 1..N :
              /\ jobs'[Len(jobs) + i].status = TRAINING_JOB_STATUS_NEW
              /\ jobs'[Len(jobs) + i].state_name = state_names[i]
              /\ jobs'[Len(jobs) + i].exp_version = ret'.args.exp_version
        /\ Cardinality(created) = N
        /\ mappings' = mappings \cup created
        /\ mappings \cap created = {}

\* C11 as stated: handle_trainable_states called with N valid state names
\* creates exactly N jobs, all NEW, and exactly N mappings, mapping i having
\* the exploration's id and version, state name i and the id of job i.
TrainableCreatesNJobsNMappings ==
    [][TrainableCall => CreatesJobsAndMappings]_vars

\* No name is listed twice and no name has a mapping at the exploration's
\* version yet.
FreshDistinctNames ==
    LET state_names == ret'.args.state_names
    IN  /\ \A i, k \in 1..Len(state_names) :
              i # k => state_names[i] # state_names[k]
        /\ \A i \in 1..Len(state_names) : \A m \in mappings :
              ~ /\ m.exp_id = ExplorationId
                /\ m.exp_version = ret'.args.exp_version
                /\ m.state_name = state_names[i]

\* C11 amended: handle_trainable_states called with N valid, pairwise
\* distinct state names none of which has a mapping at the exploration's
\* version returns normally having created exactly N jobs, all NEW, and
\* exactly N mappings, mapping i having the exploration's id and version,
\* state name i and the id of job i.
TrainableCreatesNJobsNMappingsWhenFresh ==
    [][(TrainableCall /\ FreshDistinctNames)
           => (~ret'.raised /\ CreatesJobsAndMappings)]_vars

\* A call with two distinct valid names has returned normally and the two
\* mappings of its two jobs are stored.
C11Witness ==
    /\ ret.op = "handle_trainable_states"
    /\ ~ret.raised
    /\ Len(ret.args.state_names) = 2
    /\ ret.args.state_names[1] # ret.args.state_names[2]
    /\ Len(jobs) >= 2
    /\ \A i \in 1..2 :
          [exp_id |-> ExplorationId, exp_version |-> ret.args.exp_version,
           state_name |-> ret.args.state_names[i],
           job_id |-> Len(jobs) - 2 + i] \in mappings



\* A step of handle_non_retrainable_states.
CarriedCall == ret'.op = "handle_non_retrainable_states"

\* The mapping stored before the call for the old name of state i at the
\* previous version, if any.
OldMappings(i) ==
    { m \in mappings : /\ m.exp_id = ExplorationId
                       /\ m.exp_version = ret'.args.exp_version - 1
                       /\ m.state_name = ret'.args.state_names_to_retrieve[i] }

\* The mapping the call is to create for state i from the old mapping m.
CarriedMapping(i, m) ==
    [exp_id |-> ExplorationId, exp_version |-> ret'.args.exp_version,
     state_name |-> ret'.args.state_names[i], job_id |-> m.job_id]

\* C12, for calls whose state names are distinct and not yet mapped at the
\* new version: for every state name s whose old-version job exists,
\* handle_non_retrainable_states creates the mapping (exp_id, new version,
\* s) with the job_id mapped from (exp_id, new version - 1,
\* new_to_old_state_names[s]).
CarryMapsEveryFoundState ==
    [][(CarriedCall /\ FreshDistinctNames)
           => \A i \in 1..Len(ret'.args.state_names_to_retrieve) :
              \A m \in OldMappings(i) :
                 Holds(jobs, m.job_id) => CarriedMapping(i, m) \in mappings']_vars

\* C13: handle_non_retrainable_states leaves the job store unchanged; only
\* mappings are added.
CarryLeavesJobsUnchanged ==
    [][CarriedCall => (jobs' = jobs /\ mappings \subseteq mappings')]_vars

\* A call has carried a state over: it returned normally and a mapping at
\* its version refers to a job of an earlier version.
C13Witness ==
    /\ ret.op = "handle_non_retrainable_states"
    /\ ~ret.raised
    /\ \E m \in mappings :
          /\ m.exp_version = ret.args.exp_version
          /\ m.state_name = ret.args.state_names[1]
          /\ Holds(jobs, m.job_id)
          /\ jobs[m.job_id].exp_version < m.exp_version

\* C14: handle_non_retrainable_states called with an exploration of
\* version 1 raises the version-number error, whatever the state names and
\* the rename map, and creates no mapping.
CarryAtVersionOneRaises ==
    [][(CarriedCall /\ ret'.args.exp_version = 1)
           => (ret'.raised /\ ret'.error = "version" /\ mappings' = mappings)]_vars

\* The call at version 1 has raised the version-number error although the
\* store holds a job and a mapping for the state it names.
C14Witness ==
    /\ ret.op = "handle_non_retrainable_states"
    /\ ret.args.exp_version = 1
    /\ ret.raised
    /\ ret.error = "version"
    /\ \E m \in mappings : m.state_name = ret.args.state_names[1]

\* C15, for calls whose state names are distinct and not yet mapped at the
\* new version: when the old-version job of some state cannot be found (no
\* mapping for the old key, or the mapping's job record is absent),
\* handle_non_retrainable_states does not raise, creates no mapping for
\* that state and creates the mappings of the other states.
CarrySkipsMissingJobs ==
    [][(/\ CarriedCall
        /\ FreshDistinctNames
        /\ \E i \in 1..Len(ret'.args.state_names_to_retrieve) :
              \A m \in OldMappings(i) : ~Holds(jobs, m.job_id))
           => /\ ~ret'.raised
              /\ \A i \in 1..Len(ret'.args.state_names_to_retrieve) :
                    /\ \A m \in OldMappings(i) :
                          Holds(jobs, m.job_id)
                              => CarriedMapping(i, m) \in mappings'
                    /\ (\A m \in OldMappings(i) : ~Holds(jobs, m.job_id))
                          => \A m \in mappings' :
                                ~ /\ m.exp_version = ret'.args.exp_version
                                  /\ m.state_name = ret'.args.state_names[i]]_vars

----------------------------------------------------------------------------
\* Properties of classifier data and job creation.

\* There is at most one ClassifierData per job_id.
OneClassifierPerJob ==
    \A c1, c2 \in classifiers : c1.id = c2.id => c1 = c2

\* A step of create_classifier for a job_id that has ClassifierData raises
\* and leaves the classifier data unchanged.
CreateExistingClassifierRaises ==
    (/\ ret'.op = "create_classifier"
     /\ \E c \in classifiers : c.id = ret'.args.job_id)
        => (ret'.raised /\ classifiers' = classifiers)

\* A step of create_classifier that returns adds one record, whose id is
\* the job_id and whose exploration, state and algorithm are the job's.
CreatedClassifierIsOfJob ==
    (ret'.op = "create_classifier" /\ ~ret'.raised)
        => /\ Holds(jobs, ret'.args.job_id)
           /\ \E c \in classifiers' :
                 /\ classifiers' = classifiers \cup {c}
                 /\ c \notin classifiers
                 /\ c.id = ret'.args.job_id
                 /\ c.classifier_data = ret'.args.classifier_data
                 /\ c.exp_id = jobs[c.id].exp_id
                 /\ c.state_name = jobs[c.id].state_name
                 /\ c.algorithm_id = jobs[c.id].algorithm_id

\* C17: ClassifierData is created at most once per job_id: create_classifier
\* for a job_id that already has ClassifierData raises and leaves the
\* record unchanged, there is at most one ClassifierData per job_id, and a
\* created record's id is the job_id of the job it was created from.
ClassifierCreatedOncePerJob ==
    /\ []OneClassifierPerJob
    /\ [][CreateExistingClassifierRaises]_vars
    /\ [][CreatedClassifierIsOfJob]_vars

\* create_classifier was called with other data for a job that has
\* ClassifierData: it raised and the stored data is still the first.
C17Witness ==
    /\ ret.op = "create_classifier"
    /\ ret.raised
    /\ ret.error = "exists"
    /\ \E c \in classifiers :
          /\ c.id = ret.args.job_id
          /\ c.classifier_data # ret.args.classifier_data

\* C18: after delete_classifier_training_job(job_id) has deleted the job,
\* no ClassifierData with id job_id remains.
DeletingJobDeletesClassifier ==
    [][(ret'.op = "delete_classifier_training_job" /\ ~ret'.raised)
           => \A c \in classifiers' : c.id # ret'.args.job_id]_vars

\* algorithm_id is the algorithm configured for interaction_id.
MatchingPair(algorithm_id, interaction_id) ==
    /\ interaction_id \in DOMAIN INTERACTION_CLASSIFIER_MAPPING
    /\ INTERACTION_CLASSIFIER_MAPPING[interaction_id].algorithm_id = algorithm_id

\* C20: create_classifier_training_job returns and persists a job for
\* every pair where algorithm_id is the algorithm configured for
\* interaction_id; for every other pair it raises and persists no job.
CreateJobSucceedsIffPairMatches ==
    [][ret'.op = "create_classifier_training_job"
         => IF MatchingPair(ret'.args.algorithm_id, ret'.args.interaction_id)
            THEN /\ ~ret'.raised
                 /\ Len(jobs') = Len(jobs) + 1
                 /\ SubSeq(jobs', 1, Len(jobs)) = jobs
                 /\ jobs'[Len(jobs')].algorithm_id = ret'.args.algorithm_id
                 /\ jobs'[Len(jobs')].interaction_id = ret'.args.interaction_id
            ELSE ret'.raised /\ jobs' = jobs]_vars

\* A job of a matching pair is stored and the latest call, with a pair that
\* does not match, raised.
C20Witness ==
    /\ ret.op = "create_classifier_training_job"
    /\ ret.raised
    /\ ~MatchingPair(ret.args.algorithm_id, ret.args.interaction_id)
    /\ \E j \in 1..Len(jobs) :
          /\ jobs[j] # None
          /\ MatchingPair(jobs[j].algorithm_id, jobs[j].interaction_id)



----------------------------------------------------------------------------
\* Properties of validation before writes.

\* C19: every write of a job, mapping or classifier-data record (create,
\* create_multi, put, put_multi) comes, within the same call, after a
\* successful validate() of the object carrying the written values,
\* including the lease write of fetch_next_job.
EveryWriteValidated ==
    \A i \in 1..Len(log) :
       log[i].kind = "write"
           => \E k \in 1..(i - 1) :
                 /\ log[k].kind = "validate"
                 /\ log[k].id = log[i].id
                 /\ log[k].values = log[i].values



----------------------------------------------------------------------------
\* Properties of answer classification.

ClassifyCalled == ret.op = "classify"

\* The training examples of the classified state.
ClassifiedTrainingExamples == training_examples_of(ret.args.state)

\* The classified state's interaction is one a string classifier is
\* trained for.
ClassifiedTrainable ==
    is_string_classifier_trainable(ret.args.state.interaction_id)

\* C21: with the ML flag disabled classify fails for every state and answer,
\* before the answer is normalized and before a classifier is trained or
\* asked for a prediction.
ClassifyDisabledFailsFirst ==
    (ClassifyCalled /\ ~ret.args.enabled)
    => /\ ret.raised
       /\ ret.error = "AssertionError"
       /\ ret.response = NoResponse
       /\ ret.trace = <<>>

\* classify was called with the flag disabled on a trainable state that has
\* training examples, and failed.
C21Witness ==
    /\ ClassifyCalled
    /\ ~ret.args.enabled
    /\ ClassifiedTrainable
    /\ Len(ClassifiedTrainingExamples) > 0
    /\ ret.raised

\* C22: classify on a trainable state with no training examples and a
\* default outcome returns the default outcome with answer_group_index the
\* number of answer groups, rule_spec_index 0 and certainty 0.0.
ClassifyUntrainedReturnsDefault ==
    (/\ ClassifyCalled
     /\ ret.args.enabled
     /\ ClassifiedTrainable
     /\ Len(ClassifiedTrainingExamples) = 0
     /\ ret.args.state.default_outcome # None)
    => /\ ~ret.raised
       /\ ret.response =
              [matched |-> TRUE,
               outcome |-> [dest |-> ret.args.state.default_outcome.dest],
               answer_group_index |-> Len(ret.args.state.answer_groups),
               classification_certainty |-> 0,
               rule_spec_index |-> 0]

\* The default outcome was returned for a state that has answer groups but
\* no training example.
C22Witness ==
    /\ ClassifyCalled
    /\ ret.args.enabled
    /\ ClassifiedTrainable
    /\ Len(ClassifiedTrainingExamples) = 0
    /\ Len(ret.args.state.answer_groups) = MaxAnswerGroups
    /\ ~ret.raised
    /\ ret.response.answer_group_index = MaxAnswerGroups

\* classify returned a match that is not the default outcome.
NonDefaultMatch ==
    /\ ClassifyCalled
    /\ ~ret.raised
    /\ "classification_certainty" \notin DOMAIN ret.response

\* C23: the rule_spec_index of a non-default match is the index of the
\* classifier rule spec within the matched answer group itself.
MatchedRuleIndexIsOfMatchedGroup ==
    NonDefaultMatch
    => ret.response.rule_spec_index =
           get_classifier_rule_index(
               ret.args.state.answer_groups[
                   ret.response.answer_group_index + 1])

MatcherReturnedNoMatch ==
    \/ Len(ClassifiedTrainingExamples) = 0
    \/ ret.predicted_label = DEFAULT_CLASSIFIER_LABEL

\* C25: classify on a trainable state fails with the no-match error when the
\* matcher returns no match and the state has no default outcome.
ClassifyNoMatchNoDefaultFails ==
    (/\ ClassifyCalled
     /\ ret.args.enabled
     /\ ClassifiedTrainable
     /\ MatcherReturnedNoMatch
     /\ ret.args.state.default_outcome = None)
    => /\ ret.raised
       /\ ret.error = "Something has seriously gone wrong"
       /\ ret.response = NoResponse

\* classify failed after the classifier was trained and predicted the
\* default label, on a state without default outcome.
C25Witness ==
    /\ ClassifyCalled
    /\ ret.args.enabled
    /\ ClassifiedTrainable
    /\ ret.args.state.default_outcome = None
    /\ ret.trace = <<"normalize_answer", "train", "predict">>
    /\ ret.predicted_label = DEFAULT_CLASSIFIER_LABEL
    /\ ret.raised

----------------------------------------------------------------------------
\* Properties of reads.

\* C26: reading back the classifier that create_classifier(job_id,
\* classifier_data) has just stored yields a ClassifierData with the
\* algorithm_id and state_name of the job and the classifier_data passed.
CreatedClassifierReadsBack ==
    [][(/\ ret.op = "create_classifier"
        /\ ~ret.raised
        /\ ret'.op = "get_classifier_by_id"
        /\ ret'.args.classifier_id = ret.args.job_id)
       => /\ ~ret'.raised
          /\ ret'.classifier.id = ret.args.job_id
          /\ ret'.classifier.algorithm_id
                 = jobs[ret.args.job_id].algorithm_id
          /\ ret'.classifier.state_name = jobs[ret.args.job_id].state_name
          /\ ret'.classifier.classifier_data = ret.args.classifier_data]_vars

\* The classifier of a job of the second algorithm was read back.
C26Witness ==
    /\ ret.op = "get_classifier_by_id"
    /\ ~ret.raised
    /\ ret.classifier.algorithm_id = "CodeClassifier"
    /\ ret.classifier.state_name = "Home"
    /\ ret.classifier.classifier_data = "model_b"

\* C27: get_classifier_training_job_by_id changes nothing in the store and
\* returns the domain object of the stored job, so two calls with the same
\* job_id and no write in between return equal objects.
GetJobByIdIsPureRead ==
    [][ret'.op = "get_classifier_training_job_by_id"
       => /\ UNCHANGED <<jobs, mappings, classifiers>>
          /\ ret'.raised = ~Holds(jobs, ret'.args.job_id)
          /\ ~ret'.raised
              => LET model == jobs[ret'.args.job_id]
                 IN  ret'.job =
                       [job_id |-> ret'.args.job_id,
                        algorithm_id |-> model.algorithm_id,
                        interaction_id |-> model.interaction_id,
                        exp_id |-> model.exp_id,
                        exp_version |-> model.exp_version,
                        next_scheduled_check_time |->
                            model.next_scheduled_check_time,
                        state_name |-> model.state_name,
                        status |-> model.status,
                        training_data |-> model.training_data]
          /\ (/\ ret.op = "get_classifier_training_job_by_id"
              /\ ret.args.job_id = ret'.args.job_id)
              => ret' = ret]_vars

\* The second stored job was read while the first one had been deleted.
C27Witness ==
    /\ ret.op = "get_classifier_training_job_by_id"
    /\ ret.args.job_id = 2
    /\ ~ret.raised
    /\ ret.job.status = TRAINING_JOB_STATUS_NEW
    /\ Len(jobs) = 2
    /\ jobs[1] = None

----------------------------------------------------------------------------
\* Properties of questions.

\* The change list holds one change, of the title.
TitleOnly(change_list) ==
    /\ Len(change_list) = 1
    /\ change_list[1].cmd = CMD_EDIT_QUESTION_PROPERTY
    /\ change_list[1].property_name = QUESTION_PROPERTY_TITLE

\* C28: update_question of a stored question with a title-only change list
\* sets the stored title to the new value and leaves question_data, schema
\* version, collection_id and language_code as they were.
UpdateQuestionSetsTitle ==
    [][(/\ ret'.op = "update_question"
        /\ TitleOnly(ret'.args.change_list)
        /\ QuestionStored(questions, ret'.args.question_id))
       => /\ ~ret'.raised
          /\ questions' =
                 [questions EXCEPT ![ret'.args.question_id].title =
                     ret'.args.change_list[1].new_value]]_vars

\* C29: add_question returns the id of a question that can be fetched with
\* its title, and after delete_question on that id a lookup fails with
\* entity-not-found.
AddedQuestionFetchedUntilDeleted ==
    [][/\ ret'.op = "add_question"
          => /\ ~ret'.raised
             /\ ~get_question_by_id(questions', ret'.question_id).raised
             /\ get_question_by_id(questions', ret'.question_id)
                    .question.title = ret'.args.title
       /\ (ret'.op = "delete_question" /\ ~ret'.raised)
          => /\ get_question_by_id(questions', ret'.args.question_id).raised
             /\ get_question_by_id(questions', ret'.args.question_id).error
                    = "not found"]_vars

----------------------------------------------------------------------------
\* Properties of interleaved status updates.

\* C30: while mark_training_job_complete of one worker interleaves with the
\* reclaim of fetch_next_job of another, a job whose stored status is
\* COMPLETE is never overwritten with FAILED.
CompleteNeverOverwrittenWithFailed ==
    [][\A job_id \in 1..Len(jobs) :
          jobs[job_id].status = TRAINING_JOB_STATUS_COMPLETE
          => jobs'[job_id].status # TRAINING_JOB_STATUS_FAILED]_vars

----------------------------------------------------------------------------
\* Properties of failed exploration saves.

\* C31: when the candidate job of any state passed to
\* handle_trainable_states fails, the call raises and nothing is persisted:
\* no job and no mapping, not even for earlier states that validated.
InvalidCandidatePersistsNothing ==
    [][(/\ ret'.op = "handle_trainable_states"
        /\ \E i \in 1..Len(ret'.args.state_names) :
              ~CandidateJobValid(Exploration(ret'.args.exp_version),
                                 ret'.args.state_names[i], now))
       => /\ ret'.raised
          /\ jobs' = jobs
          /\ mappings' = mappings]_vars

\* A call whose first state validates and whose second does not has raised,
\* and the store holds no job and no mapping.
C31Witness ==
    /\ ret.op = "handle_trainable_states"
    /\ ret.args.state_names = <<"Home", "Intro">>
    /\ CandidateJobValid(Exploration(ret.args.exp_version), "Home", now)
    /\ ret.raised
    /\ jobs = <<>>
    /\ mappings = {}

\* C32: when the mapping batch of handle_trainable_states fails after the
\* job batch succeeded, the jobs the call created stay in the store with
\* status NEW, and no mapping refers to them.
NoRollbackAcrossBatches ==
    [][(TrainableCall /\ ret'.raised)
       => LET N == Len(ret'.args.state_names)
          IN  /\ Len(jobs') = Len(jobs) + N
              /\ SubSeq(jobs', 1, Len(jobs)) = jobs
              /\ \A i \in 1..N :
                    /\ jobs'[Len(jobs) + i].status = TRAINING_JOB_STATUS_NEW
                    /\ jobs'[Len(jobs) + i].state_name
                           = ret'.args.state_names[i]
                    /\ \A m \in mappings' : m.job_id # Len(jobs) + i
              /\ mappings' = mappings]_vars

\* A call for a state that already had a mapping has raised in its mapping
\* batch, and its job is stored without a mapping.
C32Witness ==
    /\ ret.op = "handle_trainable_states"
    /\ ret.raised
    /\ ret.error = "mapping"
    /\ Len(jobs) = 2
    /\ jobs[2].status = TRAINING_JOB_STATUS_NEW
    /\ \A m \in mappings : m.job_id # 2
    /\ \E m \in mappings : m.state_name = jobs[2].state_name

----------------------------------------------------------------------------
\* Properties of what fetch_next_job writes.

\* C33: fetch_next_job changes only the status of the PENDING jobs it
\* scanned, to FAILED, and the next_scheduled_check_time of the job it
\* returns; the returned job keeps its status, jobs on pages after the first
\* page holding a runnable job are untouched, and no mapping or classifier
\* data changes.
FetchWritesOnlyStatusAndLease ==
    [][ ret'.op = "fetch" =>
          /\ Len(jobs') = Len(jobs)
          /\ \A j \in 1..Len(jobs) :
                LET scanned_pending ==
                        /\ j <= LastScanned(jobs)
                        /\ jobs[j].status = TRAINING_JOB_STATUS_PENDING
                    failed ==
                        IF scanned_pending
                        THEN [jobs[j] EXCEPT
                                 !.status = TRAINING_JOB_STATUS_FAILED]
                        ELSE jobs[j]
                IN  jobs'[j] =
                        IF j = ret'.job
                        THEN [failed EXCEPT !.next_scheduled_check_time =
                                 now + CLASSIFIER_JOB_TTL_MINS]
                        ELSE failed
          /\ ret'.job # NoJob => jobs'[ret'.job].status = jobs[ret'.job].status
          /\ mappings' = mappings
          /\ classifiers' = classifiers
      ]_vars

\* fetch_next_job has failed the PENDING job before the job it returned,
\* which is still NEW, and the PENDING job of the next page is as it was.
C33Witness ==
    /\ ret.op = "fetch"
    /\ ret.job = QUERY_PAGE_SIZE
    /\ ret.ids = <<1>>
    /\ Len(jobs) > QUERY_PAGE_SIZE
    /\ jobs[1].status = TRAINING_JOB_STATUS_FAILED
    /\ jobs[ret.job].status = TRAINING_JOB_STATUS_NEW
    /\ jobs[QUERY_PAGE_SIZE + 1].status = TRAINING_JOB_STATUS_PENDING

----------------------------------------------------------------------------
\* Properties of the status edges.

\* The edges the status of a job is expected to take.
ExpectedEdges ==
    { <<TRAINING_JOB_STATUS_NEW, TRAINING_JOB_STATUS_PENDING>>,
      <<TRAINING_JOB_STATUS_PENDING, TRAINING_JOB_STATUS_COMPLETE>>,
      <<TRAINING_JOB_STATUS_PENDING, TRAINING_JOB_STATUS_FAILED>>,
      <<TRAINING_JOB_STATUS_FAILED, TRAINING_JOB_STATUS_PENDING>> }

\* C34: a status update of one stored job along NEW to PENDING, PENDING to
\* COMPLETE, PENDING to FAILED or FAILED to PENDING (the retry) succeeds and
\* stores the requested status, every other job staying as it was.
ExpectedEdgesSucceed ==
    [][ ( /\ ret'.op \in UpdateOps
          /\ Len(ret'.ids) = 1
          /\ ret'.ids[1] \in StoredIds
          /\ <<jobs[ret'.ids[1]].status, RequestedStatus(ret'.op)>>
                 \in ExpectedEdges )
        => /\ ~ret'.raised
           /\ jobs' = [jobs EXCEPT ![ret'.ids[1]].status =
                                      RequestedStatus(ret'.op)]
      ]_vars

\* mark_training_job_pending has succeeded on a stored job, which is now
\* PENDING, next to a job that is FAILED and one that is COMPLETE.
C34Witness ==
    /\ ret.op = "mark_pending"
    /\ ~ret.raised
    /\ jobs[ret.ids[1]].status = TRAINING_JOB_STATUS_PENDING
    /\ \E j \in StoredIds : jobs[j].status = TRAINING_JOB_STATUS_FAILED
    /\ \E j \in StoredIds : jobs[j].status = TRAINING_JOB_STATUS_COMPLETE

\* A stored job's status becomes COMPLETE only from PENDING, through
\* mark_training_job_complete on that job, and mark_training_job_complete on
\* a NEW or FAILED job raises and stores nothing.
CompleteChangeOnlyFromPending ==
    /\ \A j \in StoredIds :
          ( /\ jobs'[j].status = TRAINING_JOB_STATUS_COMPLETE
            /\ jobs[j].status # TRAINING_JOB_STATUS_COMPLETE )
          => /\ jobs[j].status = TRAINING_JOB_STATUS_PENDING
             /\ ret'.op = "mark_complete"
             /\ ret'.ids = <<j>>
    /\ ( /\ ret'.op = "mark_complete"
         /\ ret'.ids[1] \in StoredIds
         /\ jobs[ret'.ids[1]].status \in { TRAINING_JOB_STATUS_NEW,
                                           TRAINING_JOB_STATUS_FAILED } )
       => /\ ret'.raised
          /\ jobs' = jobs

\* C35 as stated: every job that is COMPLETE was PENDING in its preceding
\* status, a job that enters the store included, and
\* mark_training_job_complete on a NEW or FAILED job raises and leaves the
\* status unchanged.
CompleteOnlyAfterPending ==
    [][ /\ CompleteChangeOnlyFromPending
        /\ \A j \in (Len(jobs) + 1)..Len(jobs') :
              jobs'[j].status # TRAINING_JOB_STATUS_COMPLETE
      ]_vars

\* C35 amended: the status of a stored job changes to COMPLETE only from
\* PENDING, by mark_training_job_complete on that job, and
\* mark_training_job_complete on a NEW or FAILED job raises and leaves the
\* status unchanged; a job created with status COMPLETE is COMPLETE without
\* having been PENDING.
StoredJobCompleteOnlyAfterPending ==
    [][ /\ Len(jobs') >= Len(jobs)
        /\ CompleteChangeOnlyFromPending
      ]_vars

\* mark_training_job_complete was refused on a FAILED job, which is still
\* FAILED, while another job of the store is COMPLETE.
C35Witness ==
    /\ ret.op = "mark_complete"
    /\ ret.raised
    /\ ret.ids[1] \in StoredIds
    /\ jobs[ret.ids[1]].status = TRAINING_JOB_STATUS_FAILED
    /\ \E j \in StoredIds : jobs[j].status = TRAINING_JOB_STATUS_COMPLETE

----------------------------------------------------------------------------
\* Properties of the training set.

\* The examples the rule matcher is to train on: each confirmed unclassified
\* answer with no label, each training answer of the classifier rule of
\* answer group i with the label str(i).
ExpectedTrainingSet(state) ==
    { [doc |-> state.confirmed_unclassified_answers[k], labels |-> <<>>] :
        k \in 1..Len(state.confirmed_unclassified_answers) }
    \cup
    UNION { { [doc |-> rule.training_data[k], labels |-> <<Digits[i]>>] :
                k \in 1..Len(rule.training_data) } :
            <<i, rule>> \in
                { <<g, state.answer_groups[g].rule_specs[
                           get_classifier_rule_index(
                               state.answer_groups[g]) + 1]>> :
                    g \in { h \in 1..Len(state.answer_groups) :
                              get_classifier_rule_index(
                                  state.answer_groups[h]) # NoIndex } } }

\* C36: classify_string_classifier_rule returns None without calling train
\* or predict when there is no confirmed unclassified answer and no
\* classifier training data; otherwise it trains exactly once, on the set
\* in which each unclassified answer has the empty label set and each
\* example of group i's classifier rule has the label str(i).
TrainsOnceOnLabelledSet ==
    ret.op = "classify_string_classifier_rule"
    => /\ ~ret.raised
       /\ IF ExpectedTrainingSet(ret.args.state) = {}
          THEN /\ ret.response = NoResponse
               /\ ret.trace = <<>>
               /\ ret.trained_on = <<>>
          ELSE /\ ret.trace = <<"train", "predict">>
               /\ Len(ret.trained_on) = 1
               /\ { ret.trained_on[1][k] : k \in 1..Len(ret.trained_on[1]) }
                      = ExpectedTrainingSet(ret.args.state)
               /\ Len(ret.trained_on[1])
                      = Cardinality(ExpectedTrainingSet(ret.args.state))

\* The matcher has trained on an unclassified answer and on the examples of
\* the classifier rules of two answer groups.
C36Witness ==
    /\ ret.op = "classify_string_classifier_rule"
    /\ Len(ret.trained_on) = 1
    /\ Len(ret.trained_on[1]) = 3
    /\ ret.trained_on[1][1].labels = <<>>
    /\ ret.trained_on[1][2].labels = <<"0">>
    /\ ret.trained_on[1][3].labels = <<"1">>

\* The matcher has returned None without training: the state has answer
\* groups, none with classifier training data.
C36WitnessUntrained ==
    /\ ret.op = "classify_string_classifier_rule"
    /\ Len(ret.args.state.answer_groups) > 0
    /\ ret.trained_on = <<>>
    /\ ret.response = NoResponse

----------------------------------------------------------------------------
\* Properties of the lookup of an exploration version's jobs.

\* The stored mappings of a state of an exploration version.
MappingsOf(exp_ver, state_name) ==
    { m \in mappings : /\ m.exp_id = ExplorationId
                       /\ m.exp_version = exp_ver
                       /\ m.state_name = state_name }

\* The returned list is as long as state_names, entry i is None exactly
\* when state_names[i] has no mapping, and is otherwise the stored job the
\* mapping names.
LookupAligned ==
    /\ Len(ret.jobs) = Len(ret.args.state_names)
    /\ \A i \in 1..Len(ret.args.state_names) :
         LET ms == MappingsOf(ret.args.exp_version, ret.args.state_names[i])
         IN  IF ms = {}
             THEN ret.jobs[i] = None
             ELSE /\ ret.jobs[i] # None
                  /\ \E m \in ms :
                       /\ m.job_id \in 1..Len(jobs)
                       /\ jobs[m.job_id] # None
                       /\ ret.jobs[i] =
                              get_classifier_training_job_from_model(
                                  m.job_id, jobs[m.job_id])

\* C37: get_classifier_training_jobs returns a list as long as state_names
\* whose entry i is None exactly when state_names[i] has no mapping at the
\* exploration version and is otherwise the job it maps to, for every
\* pattern of present and missing mappings.
LookupReturnsAlignedJobs ==
    ret.op = "get_classifier_training_jobs"
    => ~ret.raised /\ LookupAligned

\* The lookup raises only when a mapping it finds names a job the store no
\* longer holds; every list it returns is aligned.
LookupAlignedUnlessJobAbsent ==
    ret.op = "get_classifier_training_jobs"
    => IF \E i \in 1..Len(ret.args.state_names) :
             \E m \in MappingsOf(ret.args.exp_version,
                                 ret.args.state_names[i]) :
                 jobs[m.job_id] = None
       THEN ret.raised
       ELSE ~ret.raised /\ LookupAligned

\* A lookup has returned a job between two None entries.
LookupBackfilledAroundJob ==
    /\ ret.op = "get_classifier_training_jobs"
    /\ ~ret.raised
    /\ Len(ret.jobs) = 3
    /\ ret.jobs[1] = None /\ ret.jobs[2] # None /\ ret.jobs[3] = None

----------------------------------------------------------------------------
\* Properties of the mappings exploration saves leave behind.

\* C38: after any sequence of handle_trainable_states and
\* handle_non_retrainable_states calls, each mapping refers to a job that
\* exists in the store, that job has the mapping's exploration id, and the
\* job's exploration version is at most the mapping's.
MappingsReferToEarlierJobs ==
    \A m \in mappings :
        /\ m.job_id \in 1..Len(jobs)
        /\ jobs[m.job_id] # None
        /\ jobs[m.job_id].exp_id = m.exp_id
        /\ jobs[m.job_id].exp_version <= m.exp_version

\* handle_non_retrainable_states has mapped a state of version 2 to a job
\* of version 1 while another state of version 2 has a job of its own.
C38Witness ==
    /\ ret.op = "handle_non_retrainable_states"
    /\ ~ret.raised
    /\ \E m \in mappings :
          /\ m.exp_version = 2
          /\ jobs[m.job_id].exp_version = 1
    /\ \E m \in mappings :
          /\ m.exp_version = 2
          /\ jobs[m.job_id].exp_version = 2

----------------------------------------------------------------------------
\* Properties of applied question changes.

\* The changes of change_list to one property, in order.
ChangesTo(change_list, property_name) ==
    LET Edits(change) == /\ change.cmd = CMD_EDIT_QUESTION_PROPERTY
                         /\ change.property_name = property_name
    IN  SelectSeq(change_list, Edits)

\* The value of a property after change_list: the new value of the last
\* change to it, or the stored value.
ValueAfter(change_list, property_name, stored) ==
    LET edits == ChangesTo(change_list, property_name)
    IN  IF Len(edits) = 0 THEN stored ELSE edits[Len(edits)].new_value

\* C39: apply_change_list applies every edit-property change in order to
\* the fetched question: the returned question has the title, the language
\* code and the question data of the last change to each, and the stored
\* value where the list has no change to it.
AppliedChangesSetProperties ==
    (ret.op = "apply_change_list" /\ ~ret.raised)
    => LET stored == questions[ret.args.question_id]
           change_list == ret.args.change_list
       IN  /\ ret.question.title =
                  ValueAfter(change_list, QUESTION_PROPERTY_TITLE,
                             stored.title)
           /\ ret.question.language_code =
                  ValueAfter(change_list, QUESTION_PROPERTY_LANGUAGE_CODE,
                             stored.language_code)
           /\ ret.question.question_data =
                  ValueAfter(change_list, QUESTION_PROPERTY_QUESTION_DATA,
                             stored.question_data)

\* What the code does: title and language code changes are applied in
\* order, the question data stays as stored.
AppliedChangesLeaveQuestionData ==
    (ret.op = "apply_change_list" /\ ~ret.raised)
    => LET stored == questions[ret.args.question_id]
           change_list == ret.args.change_list
       IN  /\ ret.question.title =
                  ValueAfter(change_list, QUESTION_PROPERTY_TITLE,
                             stored.title)
           /\ ret.question.language_code =
                  ValueAfter(change_list, QUESTION_PROPERTY_LANGUAGE_CODE,
                             stored.language_code)
           /\ ret.question.question_data = stored.question_data

\* Two title changes have been applied to a stored question.
AppliedTwoTitleChanges ==
    /\ ret.op = "apply_change_list"
    /\ ~ret.raised
    /\ Len(ChangesTo(ret.args.change_list, QUESTION_PROPERTY_TITLE)) = 2
    /\ ret.question.title = "XYZ"

=============================================================================
